---- MODULE Spec2Model ----
(***************************************************************************)
(* Consistency & Coordination Engine of the RFC automation scripts:        *)
(*   - rfc_assignment_mutex.py : SeriesState, ensure_series_state, main    *)
(*   - rfc_db_v2.py            : RfcDb (copy, lock, promote)               *)
(*   - notion_reliability.py   : TokenBucket, _request, journal,           *)
(*                               ingest_pages                              *)
(*   - chain_consistency_manager.py : ChainRecord.detect_states            *)
(* Each part has its own specification over its own variables; the other   *)
(* parts' variables stay at their initial values.                          *)
(***************************************************************************)
EXTENDS Integers, Sequences, FiniteSets, TLC

(***************************************************************************)
(* Bounds of the model.                                                    *)
(***************************************************************************)
\* issue numbers are 1..NumIssues
NumIssues == 3
\* the wall clock read by now_iso() runs over 0..MaxNow
MaxNow == 1
\* calls of the mutex command begun in one behaviour of EnsureSpec
MaxCalls == 3
\* longest queue read from a tracking body
MaxQueue == 3
\* page ids are 1..NumPages, content hashes 1..NumHashes
NumPages == 2
NumHashes == 2
\* store sessions one process opens, one after the other, in one behaviour
MaxSessions == 3
\* ingest runs in one behaviour, ids in the batch of one run
MaxRuns == 3
MaxBatch == 2
\* largest retries a client is built with
MaxRetries == 3
\* a token is TokenParts units of the bucket, a second RATE_PER_SEC *
\* TokenParts units of time: the grain of the clock read by time.time()
TokenParts == 2
\* most pages of one block-children listing, ingest runs of FetchSpec
MaxListing == 2
MaxFetchRuns == 2
\* issues, pull requests, branches and runs of one ChainRecord, together;
\* detect_states calls on it in one behaviour
MaxEntities == 3
MaxDetects == 2
\* longest text given to normalize_content
MaxText == 6
\* pages of results get_block_children is followed over
MaxGot == 3

(***************************************************************************)
(* Program constants.                                                      *)
(***************************************************************************)
SCHEMA_VERSION == 2
LOCK_STALE_SECONDS == 300
RATE_PER_SEC == 3
BURST == 5
CI_STUCK_THRESHOLD_MINUTES == 30

(***************************************************************************)
(* Values.                                                                 *)
(***************************************************************************)
\* Optional[int] = None; issue numbers start at 1
None == 0
Issues == 1..NumIssues
\* Optional[bool] of active_issue_open
AioValues == {"None", "True", "False"}

\* the processes that run the mutex command concurrently
Procs == {"p1", "p2"}

VARIABLES
    now,        \* the wall clock
    \* ---- SeriesState object (rfc_assignment_mutex.py) ----
    state,      \* the SeriesState: active_issue, queue, updated_at, version
    call,       \* the last method call on it and what it returned or raised
    \* ---- ensure_series_state (rfc_assignment_mutex.py) ----
    issueOpen,  \* issue number -> its ticket is OPEN
    docs,       \* the tracking issues of the series: body and updatedAt
    pc,         \* process -> where it is in ensure_series_state
    loc,        \* process -> the locals of its call
    out,        \* process -> what main printed for its last call
    exitCode,   \* process -> what main returned for its last call
    \* ---- RfcDb (rfc_db_v2.py) ----
    fs,         \* path -> the database file at that path
    lockFile,   \* the advisory lock file beside the store
    spc,        \* process -> where it is in its store session
    sess,       \* process -> number of sessions it has opened
    exc,        \* process -> the last exception raised in its session
    overlap,    \* history: a session was opened while another was in progress
    \* ---- ingest_pages (notion_reliability.py) ----
    content,    \* page id -> the content hash a fetch of the page yields
    journal,    \* the lines of the journal file
    ing,        \* the state of the running ingest_pages call
    summary,    \* the counts of the metrics file
    upserts,    \* history: page id -> number of upsert_page calls of ingest runs
    \* ---- NotionReliableClient (notion_reliability.py) ----
    bucket,     \* the TokenBucket: tokens and the time since its timestamp
    req,        \* the running _request call
    win,        \* history: attempts and time since an arbitrary instant
    fetch,      \* the running fetch_page_state call
    \* ---- ChainRecord (chain_consistency_manager.py) ----
    snap,       \* the entity lists of the record and the now passed to detect_states
    wall,       \* the clock read by datetime.now(timezone.utc), in seconds
    det,        \* what the detect_states calls so far have returned
    \* ---- normalize_content (rfc_db_v2.py) ----
    norm,       \* a text, and what normalize_content made of it
    \* ---- get_block_children (notion_reliability.py) ----
    pager,      \* the server's listing and the running get_block_children call
    \* ---- history, read only by the claims ----
    holder,     \* the issue last reported as owner whose ticket stayed open
    runs,       \* process -> number of calls it has begun
    race0,      \* what the record held when the race began
    shadow      \* process -> what its session copied and committed; the last promote

objVars == <<state, call>>
mutexVars == <<issueOpen, docs, pc, loc, out, exitCode>>
storeVars == <<fs, lockFile, spc, sess, exc, overlap>>
ingestVars == <<content, journal, ing, summary, upserts>>
histVars == <<holder, runs, race0>>
clientVars == <<bucket, req, win, fetch>>
chainVars == <<snap, wall, det>>
pureVars == <<norm, pager>>
extraVars == <<clientVars, chainVars, pureVars, shadow>>
vars == <<now, objVars, mutexVars, storeVars, ingestVars, histVars, extraVars>>
\* what the specifications of the mutex leave alone
notMutex == <<objVars, storeVars, ingestVars, extraVars>>

(***************************************************************************)
(* List helpers, as Python computes them.                                  *)
(***************************************************************************)
Range(q) == {q[i] : i \in 1..Len(q)}

\* x in q
In(x, q) == x \in Range(q)

\* list.remove(x): drops the FIRST occurrence of x (x is known to be in q)
RECURSIVE ListRemove(_, _)
ListRemove(q, x) ==
    IF q = <<>> THEN <<>>
    ELSE IF Head(q) = x THEN Tail(q)
    ELSE <<Head(q)>> \o ListRemove(Tail(q), x)

\* [e for e in q if e != x]: drops EVERY occurrence of x
RECURSIVE ListWithout(_, _)
ListWithout(q, x) ==
    IF q = <<>> THEN <<>>
    ELSE IF Head(q) = x THEN ListWithout(Tail(q), x)
    ELSE <<Head(q)>> \o ListWithout(Tail(q), x)

\* q.append(x)
ListAppend(q, x) == q \o <<x>>

\* no element occurs twice in q
NoDuplicates(q) == \A i, j \in 1..Len(q) : q[i] = q[j] => i = j

(***************************************************************************)
(* SeriesState                                                             *)
(***************************************************************************)
\* SeriesState.default(series): no owner, empty queue, version 1
DefaultState(t) ==
    [active_issue |-> None, queue |-> <<>>, updated_at |-> t, version |-> 1]

\* a variant of AlreadyActive that misspells the status it returns
AlreadyActive_MisspelledStatus(s, c, t) ==
    [state  |-> [s EXCEPT !.queue = IF In(c, s.queue) THEN ListRemove(s.queue, c)
                                    ELSE s.queue,
                          !.updated_at = t],
     status |-> "already_active"]

\* a variant of AlreadyActive that empties the queue
AlreadyActive_ClearsQueue(s, c, t) ==
    [state  |-> [s EXCEPT !.queue = <<>>, !.updated_at = t],
     status |-> "already-active"]

\* apply_candidate, branch "candidate already the active owner"
AlreadyActive(s, c, t) ==
    [state  |-> [s EXCEPT !.queue = IF In(c, s.queue) THEN ListRemove(s.queue, c)
                                    ELSE s.queue,
                          !.updated_at = t],
     status |-> "already-active"]

\* a variant of Acquire that promotes the candidate and leaves it queued
Acquire_KeepsCandidateQueued(s, c, aio, t) ==
    [state  |-> [s EXCEPT !.active_issue = c, !.updated_at = t],
     status |-> "acquired"]

\* apply_candidate, branch "no owner, or the owner's ticket is closed"
Acquire(s, c, aio, t) ==
    LET q1 == IF s.active_issue # None /\ aio = "False" /\ In(s.active_issue, s.queue)
              THEN ListWithout(s.queue, s.active_issue)
              ELSE s.queue
        q2 == IF In(c, q1) THEN ListRemove(q1, c) ELSE q1
    IN [state  |-> [s EXCEPT !.active_issue = c, !.queue = q2, !.updated_at = t],
        status |-> "acquired"]

\* a variant of Enqueue that appends without the membership test
Enqueue_AlwaysAppends(s, c, t) ==
    [state  |-> [s EXCEPT !.queue = ListAppend(s.queue, c), !.updated_at = t],
     status |-> "queued"]

\* apply_candidate, branch "an open, different owner is active"
Enqueue(s, c, t) ==
    [state  |-> [s EXCEPT !.queue = IF ~In(c, s.queue) THEN ListAppend(s.queue, c)
                                    ELSE s.queue,
                          !.updated_at = t],
     status |-> "queued"]

\* a variant of RaiseNotOpen that stamps the state before it raises
RaiseNotOpen_StampsFirst(s, c, t) ==
    [state |-> [s EXCEPT !.updated_at = t], status |-> "MutexError"]

\* apply_candidate, the guard on the candidate's ticket: raise MutexError
\* before anything is assigned
RaiseNotOpen(s, c, t) == [state |-> s, status |-> "MutexError"]

\* SeriesState.apply_candidate(candidate_issue, candidate_open,
\* active_issue_open) at time t: the state after the call and the value
\* returned ("MutexError" when it raises)
ApplyCandidate(s, c, candidate_open, aio, t) ==
    IF ~candidate_open THEN RaiseNotOpen(s, c, t)
    ELSE IF s.active_issue = c THEN AlreadyActive(s, c, t)
    ELSE IF s.active_issue = None \/ aio = "False" THEN Acquire(s, c, aio, t)
    ELSE Enqueue(s, c, t)

\* ensure_series_state, the update made when the candidate has blocked
\* dependencies
BlockedUpdate(s, c, t) ==
    LET a == IF s.active_issue = c THEN None ELSE s.active_issue
        q == IF ~In(c, s.queue) THEN ListAppend(s.queue, c) ELSE s.queue
    IN [s EXCEPT !.active_issue = a, !.queue = q, !.updated_at = t]

\* no call has been made on the object yet
NoCall == [op |-> "none", candidate |-> None, candidate_open |-> TRUE,
           aio |-> "None", result |-> "none"]

ObjVarsInit ==
    /\ state = DefaultState(0)
    /\ call = NoCall

(***************************************************************************)
(* ensure_series_state: the tracking document and the steps of one call.   *)
(* Every GraphQL request is one step; what a process computes between two  *)
(* requests belongs to the later step.                                     *)
(***************************************************************************)
\* SeriesState.to_body: the fenced JSON block holding exactly the fields
ToBody(s) ==
    [kind |-> "json", active_issue |-> s.active_issue, queue |-> s.queue,
     updated_at |-> s.updated_at, version |-> s.version]

\* SeriesState.from_body at time t: the default state when the body holds
\* no JSON block, the fields of the block otherwise
FromBody(b, t) ==
    IF b.kind # "json" THEN DefaultState(t)
    ELSE [active_issue |-> b.active_issue, queue |-> b.queue,
          updated_at |-> b.updated_at, version |-> b.version]

\* search_tracking_issue: the indices of the tracking issues that may come
\* first after the sort by updatedAt, newest first (the order among equal
\* stamps is the search's own); empty when there is none
Newest(ds) ==
    {i \in 1..Len(ds) : \A j \in 1..Len(ds) : ds[j].updatedAt <= ds[i].updatedAt}

\* a variant of LoadActiveOpen that compares the state with the wrong literal
LoadActiveOpen_WrongLiteral(open, a) == "False"

\* load_issue(active)["issue"].get("state") == "OPEN"
LoadActiveOpen(open, a) == IF open[a] THEN "True" ELSE "False"

\* a variant of WriteIfChanged that never sends the update
WriteIfChanged_NeverWrites(ds, i, new_body, original_body, t) == ds

\* update_tracking_issue, guarded by new_body != original_body
WriteIfChanged(ds, i, new_body, original_body, t) ==
    IF new_body # original_body
    THEN [ds EXCEPT ![i] = [body |-> new_body, updatedAt |-> t]]
    ELSE ds

LocIdle ==
    [cand |-> None, cand_open |-> FALSE, doc |-> 0,
     original |-> ToBody(DefaultState(0)), st |-> DefaultState(0), aio |-> "None"]

\* nothing printed yet
NoOutput == "none"
\* no call has returned yet
NoExit == -1

MutexVarsInit ==
    /\ issueOpen = [i \in Issues |-> TRUE]
    /\ docs = <<>>
    /\ pc = [p \in Procs |-> "idle"]
    /\ loc = [p \in Procs |-> LocIdle]
    /\ out = [p \in Procs |-> NoOutput]
    /\ exitCode = [p \in Procs |-> NoExit]

HistVarsInit ==
    /\ holder = None
    /\ runs = [p \in Procs |-> 0]
    /\ race0 = [existed |-> FALSE, active_issue |-> None, foreign_open |-> FALSE,
                overlapped |-> FALSE]

\* a variant of MainReturn that exits 0 for a candidate queued behind its
\* dependencies
MainReturn_DependencyExitsZero(status) ==
    IF status = "error" THEN 1
    ELSE IF status \in {"queued"} THEN 1
    ELSE 0

\* main: 1 from the except MutexError clause (status "error"), 1 for the
\* statuses queued and queued-dependency, 0 otherwise
MainReturn(status) ==
    IF status = "error" THEN 1
    ELSE IF status \in {"queued", "queued-dependency"} THEN 1
    ELSE 0

\* main prints the result and exits
Finish(p, c, status) ==
    /\ out' = [out EXCEPT ![p] = status]
    /\ exitCode' = [exitCode EXCEPT ![p] = MainReturn(status)]
    /\ pc' = [pc EXCEPT ![p] = "idle"]
    /\ loc' = [loc EXCEPT ![p] = LocIdle]

\* load_issue(issue_number) and the series of its title
Begin(p, c, has_series) ==
    /\ pc[p] = "idle"
    /\ IF has_series
       THEN /\ pc' = [pc EXCEPT ![p] = "search"]
            /\ loc' = [loc EXCEPT ![p] =
                          [LocIdle EXCEPT !.cand = c, !.cand_open = issueOpen[c]]]
            /\ UNCHANGED <<out, exitCode>>
       ELSE Finish(p, c, "no-series")
    /\ UNCHANGED <<issueOpen, docs, now>>

\* search_tracking_issue, then from_body of what it found
Search(p) ==
    /\ pc[p] = "search"
    /\ IF docs = <<>>
       THEN /\ pc' = [pc EXCEPT ![p] = "create"]
            /\ UNCHANGED loc
       ELSE \E i \in Newest(docs) :
            /\ pc' = [pc EXCEPT ![p] = "deps"]
            /\ loc' = [loc EXCEPT ![p].doc = i,
                                  ![p].original = docs[i].body,
                                  ![p].st = FromBody(docs[i].body, now)]
    /\ UNCHANGED <<issueOpen, docs, out, exitCode, now>>

\* create_tracking_issue, then from_body of the body it returned
Create(p) ==
    /\ pc[p] = "create"
    /\ LET body == ToBody(DefaultState(now))
       IN /\ docs' = Append(docs, [body |-> body, updatedAt |-> now])
          /\ loc' = [loc EXCEPT ![p].doc = Len(docs) + 1,
                                ![p].original = body,
                                ![p].st = FromBody(body, now)]
    /\ pc' = [pc EXCEPT ![p] = "deps"]
    /\ UNCHANGED <<issueOpen, out, exitCode, now>>

\* dependencies_blocked; with blocked dependencies the queued-dependency
\* update and return, otherwise load_issue of the recorded owner
CheckDeps(p, blocked) ==
    /\ pc[p] = "deps"
    /\ LET l == loc[p]
       IN IF blocked
          THEN LET s2 == BlockedUpdate(l.st, l.cand, now)
               IN /\ docs' = WriteIfChanged(docs, l.doc, ToBody(s2), l.original, now)
                  /\ Finish(p, l.cand, "queued-dependency")
          ELSE /\ loc' = [loc EXCEPT ![p].aio =
                             IF l.st.active_issue # None /\ l.st.active_issue # l.cand
                             THEN LoadActiveOpen(issueOpen, l.st.active_issue)
                             ELSE "None"]
               /\ pc' = [pc EXCEPT ![p] = "apply"]
               /\ UNCHANGED <<docs, out, exitCode>>
    /\ UNCHANGED <<issueOpen, now>>

\* apply_candidate, update_tracking_issue when the body changed, return;
\* main prints status "error" for a MutexError
ApplyWrite(p) ==
    /\ pc[p] = "apply"
    /\ LET l == loc[p]
           r == ApplyCandidate(l.st, l.cand, l.cand_open, l.aio, now)
       IN IF r.status = "MutexError"
          THEN /\ Finish(p, l.cand, "error")
               /\ UNCHANGED docs
          ELSE /\ docs' = WriteIfChanged(docs, l.doc, ToBody(r.state), l.original, now)
               /\ Finish(p, l.cand, r.status)
    /\ UNCHANGED <<issueOpen, now>>

\* gql raises MutexError for the request the process is about to make
Fail(p) ==
    /\ pc[p] \in {"search", "create", "deps", "apply"}
    /\ Finish(p, loc[p].cand, "error")
    /\ UNCHANGED <<issueOpen, docs, now>>

\* somebody closes or reopens a ticket
CloseIssue(i) ==
    /\ issueOpen[i]
    /\ issueOpen' = [issueOpen EXCEPT ![i] = FALSE]
    /\ UNCHANGED <<docs, pc, loc, out, exitCode, now>>

ReopenIssue(i) ==
    /\ ~issueOpen[i]
    /\ issueOpen' = [issueOpen EXCEPT ![i] = TRUE]
    /\ UNCHANGED <<docs, pc, loc, out, exitCode, now>>

\* time passes
Tick ==
    /\ now < MaxNow
    /\ now' = now + 1
    /\ UNCHANGED mutexVars

\* the bodies search can return: what the next call will read
Persisted == {docs[i].body : i \in Newest(docs)}

(***************************************************************************)
(* RfcDb: the store file, the private working copy of each session, the    *)
(* advisory lock file.  Every file-system call of close() is one step.     *)
(***************************************************************************)
PageIds == 1..NumPages
Hashes == 1..NumHashes
\* the issue numbers record_issue is called with
RecordedIssues == {1}
\* no row for this key
NoRow == 0

\* the path given to RfcDb(path)
OriginalPath == "db"
Paths == Procs \cup {OriginalPath}

\* no file at the path
NoFile ==
    [exists |-> FALSE, pages |-> [i \in PageIds |-> NoRow],
     issues |-> [n \in RecordedIssues |-> NoRow], schema |-> {}]

\* a variant of TmpPath that hands the connection the store's own path
TmpPath_IsOriginal(p) == OriginalPath

\* tmp_path: a file in a fresh mkdtemp directory, private to the session
TmpPath(p) == p

\* the largest schema_version row, 0 for SELECT MAX(version) = NULL
MaxVersion(db) ==
    IF db.schema = {} THEN 0 ELSE CHOOSE v \in db.schema : \A w \in db.schema : w <= v

\* a variant of Migrate that stamps the version whatever the table holds and
\* keeps that row only
Migrate_Restamps(db) ==
    [db EXCEPT !.exists = TRUE, !.schema = {SCHEMA_VERSION}]

\* a variant of Migrate that creates notion_pages anew instead of IF NOT EXISTS
Migrate_RecreatesPages(db) ==
    [db EXCEPT !.exists = TRUE, !.pages = [i \in PageIds |-> NoRow],
               !.schema = db.schema \cup {SCHEMA_VERSION}]

\* _migrate on the working copy: the tables exist, the version is stamped
Migrate(db) ==
    [db EXCEPT !.exists = TRUE,
               !.schema = IF MaxVersion(db) < SCHEMA_VERSION
                          THEN db.schema \cup {SCHEMA_VERSION} ELSE db.schema]

\* a variant of Rollback that leaves what the transaction wrote
Rollback_KeepsWrites(before, written) == written

\* except Exception: ROLLBACK, raise: the database as it was at BEGIN
Rollback(before, written) == before

\* upsert_page: BEGIN, INSERT ... ON CONFLICT(page_id) DO UPDATE, COMMIT;
\* when a statement raises (ok false), ROLLBACK
UpsertPage(db, page_id, hash, ok) ==
    LET written == [db EXCEPT !.exists = TRUE, !.pages[page_id] = hash]
    IN  IF ok THEN written ELSE Rollback(db, written)

\* record_issue: BEGIN, INSERT OR REPLACE INTO github_issues, COMMIT; when a
\* statement raises (ok false), ROLLBACK.  Of the row the notion_page_id is
\* kept
RecordIssue(db, issue_number, page_id, ok) ==
    LET written == [db EXCEPT !.exists = TRUE, !.issues[issue_number] = page_id]
    IN  IF ok THEN written ELSE Rollback(db, written)

\* no lock file; otherwise its pid and its age _now_ts() - ts, which is all
\* acquire_lock reads of ts (kept up to LOCK_STALE_SECONDS + 1)
NoLock == [exists |-> FALSE, pid |-> "", age |-> 0]

\* a variant of Stale that subtracts the wrong way round
Stale_SignError(age) == 0 - age > LOCK_STALE_SECONDS

\* _now_ts() - ts > LOCK_STALE_SECONDS
Stale(age) == age > LOCK_STALE_SECONDS

StoreVarsInit ==
    /\ fs = [x \in Paths |-> NoFile]
    /\ lockFile = NoLock
    /\ spc = [p \in Procs |-> "none"]
    /\ sess = [p \in Procs |-> 0]
    /\ exc = [p \in Procs |-> "none"]
    /\ overlap = FALSE

\* process q has a session that is neither closed nor abandoned
InSession(q) == spc[q] \notin {"none", "done", "crashed"}

\* RfcDb.__init__: copy the store file if there is one, connect, migrate
Open(p) ==
    /\ spc[p] \in {"none", "done", "crashed"}
    /\ sess' = [sess EXCEPT ![p] = @ + 1]
    /\ fs' = [fs EXCEPT ![TmpPath(p)] = Migrate(fs[OriginalPath])]
    /\ spc' = [spc EXCEPT ![p] = "open"]
    /\ exc' = [exc EXCEPT ![p] = "none"]
    /\ overlap' = (overlap \/ \E q \in Procs \ {p} : InSession(q))
    /\ UNCHANGED lockFile

\* upsert_page on the session's connection; ok: no statement of it raises
Upsert(p, page_id, hash, ok) ==
    /\ spc[p] = "open"
    /\ fs' = [fs EXCEPT ![TmpPath(p)] = UpsertPage(@, page_id, hash, ok)]
    /\ exc' = [exc EXCEPT ![p] = IF ok THEN "none" ELSE "call"]
    /\ UNCHANGED <<lockFile, spc, sess, overlap>>

\* record_issue on the session's connection; ok: no statement of it raises
Record(p, issue_number, page_id, ok) ==
    /\ spc[p] = "open"
    /\ fs' = [fs EXCEPT ![TmpPath(p)] = RecordIssue(@, issue_number, page_id, ok)]
    /\ exc' = [exc EXCEPT ![p] = IF ok THEN "none" ELSE "call"]
    /\ UNCHANGED <<lockFile, spc, sess, overlap>>

\* a variant of ScopeExitByException without the finally clause: the
\* exception leaves the scope and close() is not called
ScopeExitByException_NoFinally == "done"

\* open_db: an exception raised in the body of the scope reaches finally:
\* db.close(), so the session goes on to the first step of close()
ScopeExitByException == "lk_exists"

\* the body of an open_db scope raises
ScopeRaise(p) ==
    /\ spc[p] = "open"
    /\ spc' = [spc EXCEPT ![p] = ScopeExitByException]
    /\ exc' = [exc EXCEPT ![p] = "scope"]
    /\ UNCHANGED <<fs, lockFile, sess, overlap>>

\* close(): conn.close(), then acquire_lock begins
CloseBegin(p) ==
    /\ spc[p] = "open"
    /\ spc' = [spc EXCEPT ![p] = "lk_exists"]
    /\ UNCHANGED <<fs, lockFile, sess, exc, overlap>>

\* acquire_lock: if lock_file.exists()
LkExists(p) ==
    /\ spc[p] = "lk_exists"
    /\ spc' = [spc EXCEPT ![p] = IF lockFile.exists THEN "lk_read" ELSE "lk_write"]
    /\ UNCHANGED <<fs, lockFile, sess, exc, overlap>>

\* acquire_lock: read_text and the staleness test; a stale lock and a read
\* that raises go on to unlink, a fresh lock to sleep(2) and the next round
LkRead(p) ==
    /\ spc[p] = "lk_read"
    /\ spc' = [spc EXCEPT ![p] =
                  IF ~lockFile.exists \/ Stale(lockFile.age)
                  THEN "lk_unlink" ELSE "lk_exists"]
    /\ UNCHANGED <<fs, lockFile, sess, exc, overlap>>

\* acquire_lock: lock_file.unlink(missing_ok=True)
LkUnlink(p) ==
    /\ spc[p] = "lk_unlink"
    /\ lockFile' = NoLock
    /\ spc' = [spc EXCEPT ![p] = "lk_write"]
    /\ UNCHANGED <<fs, sess, exc, overlap>>

\* acquire_lock: lock_file.write_text({ts, pid}) and return; the directory of
\* the store exists and is writable, so write_text does not raise
LkWrite(p) ==
    /\ spc[p] = "lk_write"
    /\ lockFile' = [exists |-> TRUE, pid |-> p, age |-> 0]
    /\ spc' = [spc EXCEPT ![p] = "move"]
    /\ UNCHANGED <<fs, sess, exc, overlap>>

\* close(): shutil.move(tmp_path, original_path); ok: the move does not
\* raise.  Either way finally is next
Move(p, ok) ==
    /\ spc[p] = "move"
    /\ fs' = IF ok
             THEN [fs EXCEPT ![OriginalPath] = fs[TmpPath(p)], ![TmpPath(p)] = NoFile]
             ELSE fs
    /\ exc' = [exc EXCEPT ![p] = IF ok THEN @ ELSE "move"]
    /\ spc' = [spc EXCEPT ![p] = "release"]
    /\ UNCHANGED <<lockFile, sess, overlap>>

\* close(): release_lock unlinks the lock file, then rmtree(tmp_dir)
Release(p) ==
    /\ spc[p] = "release"
    /\ lockFile' = NoLock
    /\ fs' = [fs EXCEPT ![TmpPath(p)] = NoFile]
    /\ spc' = [spc EXCEPT ![p] = "done"]
    /\ UNCHANGED <<sess, exc, overlap>>

\* the process is killed: its files stay as they are
Crash(p) ==
    /\ spc[p] \notin {"none", "done", "crashed"}
    /\ spc' = [spc EXCEPT ![p] = "crashed"]
    /\ UNCHANGED <<fs, lockFile, sess, exc, overlap>>

\* d seconds pass: an existing lock file grows older
Elapse(d) ==
    /\ lockFile.exists
    /\ lockFile.age <= LOCK_STALE_SECONDS
    /\ lockFile' = [lockFile EXCEPT !.age =
                       IF @ + d > LOCK_STALE_SECONDS THEN LOCK_STALE_SECONDS + 1 ELSE @ + d]
    /\ UNCHANGED <<fs, spc, sess, exc, overlap>>

\* the processes between the return of acquire_lock and release_lock
Promoting == {p \in Procs : spc[p] \in {"move", "release"}}

\* what the store specifications leave alone
notStore == <<now, objVars, mutexVars, ingestVars, histVars, extraVars>>

(***************************************************************************)
(* ingest_pages: one run loads the journal index, opens a store session,   *)
(* handles the ids of its batch in order, emits the summary and closes the *)
(* session.                                                                *)
(***************************************************************************)
FetchOutcomes == {"ok", "perm", "transient"}

\* the batches of a run: lists of page ids
Batches == UNION {[1..n -> PageIds] : n \in 0..MaxBatch}

\* append_journal_line; a FAILED_* line carries no hash
JournalLine(page_id, hash, status) ==
    [page_id |-> page_id, hash |-> hash, status |-> status]

\* load_journal_index: (page_id, hash) -> status, a later line overwrites an
\* earlier one of the same key
LoadJournalIndex(j) ==
    LET keys == {<<j[n].page_id, j[n].hash>> : n \in DOMAIN j}
        last(k) == CHOOSE n \in DOMAIN j :
                       /\ <<j[n].page_id, j[n].hash>> = k
                       /\ \A m \in DOMAIN j : <<j[m].page_id, j[m].hash>> = k => m <= n
    IN  [k \in keys |-> j[last(k)].status]

\* the journal skip check of ingest_pages
Skip(index, page_id, hash) ==
    <<page_id, hash>> \in DOMAIN index /\ index[<<page_id, hash>>] = "SUCCESS"

NoCounts == [total |-> 0, new |-> 0, unchanged |-> 0]

\* no ingest_pages call is running
IngIdle ==
    [running |-> FALSE, index |-> <<>>, batch |-> <<>>, dry_run |-> FALSE,
     counts |-> NoCounts, mark |-> 0, last |-> "none"]

IngestVarsInit ==
    /\ content = [i \in PageIds |-> 1]
    /\ journal = <<>>
    /\ ing = IngIdle
    /\ summary = NoCounts
    /\ upserts = [i \in PageIds |-> 0]

\* ingest_pages up to the loop: load_journal_index, open_db; mark is the
\* length of the journal the index was loaded from, last the outcome of the
\* latest fetch_page_state of the call
IngestBegin(p, page_ids, dry_run) ==
    /\ ~ing.running
    /\ spc[p] \in {"none", "done", "crashed"}
    /\ Open(p)
    /\ ing' = [running |-> TRUE, index |-> LoadJournalIndex(journal),
               batch |-> page_ids, dry_run |-> dry_run, counts |-> NoCounts,
               mark |-> Len(journal), last |-> "none"]
    /\ UNCHANGED <<content, journal, summary, upserts>>

\* a loop whose round lets the exception of fetch_page_state leave
\* ingest_pages through open_db: nothing journaled, the rest not attempted
IngestFailed_Propagates(p, outcome) ==
    /\ ing.running /\ ing.batch # <<>>
    /\ outcome \in {"perm", "transient"}
    /\ ScopeRaise(p)
    /\ ing' = [ing EXCEPT !.running = FALSE, !.counts.total = @ + 1,
                          !.last = outcome]
    /\ UNCHANGED <<content, journal, summary, upserts>>

\* one round of the loop whose fetch_page_state raises: the except branch
\* journals the failure and continues with the next id
IngestFailed(p, outcome) ==
    LET pid == Head(ing.batch)
        status == IF outcome = "perm" THEN "FAILED_PERM" ELSE "FAILED_TRANSIENT"
    IN  /\ ing.running /\ ing.batch # <<>>
        /\ outcome \in {"perm", "transient"}
        /\ journal' = Append(journal, JournalLine(pid, None, status))
        /\ ing' = [ing EXCEPT !.batch = Tail(@), !.counts.total = @ + 1,
                              !.last = outcome]
        /\ UNCHANGED <<content, summary, upserts, storeVars>>

\* one round of the loop whose fetch_page_state returns a state of hash h
IngestStored(p, h) ==
    LET pid == Head(ing.batch)
    IN  /\ ing.running /\ ing.batch # <<>>
        /\ IF Skip(ing.index, pid, h)
           THEN /\ ing' = [ing EXCEPT !.batch = Tail(@), !.counts.total = @ + 1,
                                      !.counts.unchanged = @ + 1, !.last = "ok"]
                /\ journal' = IF ing.dry_run THEN journal
                              ELSE Append(journal, JournalLine(pid, h, "UNCHANGED"))
                /\ UNCHANGED <<upserts, storeVars>>
           ELSE IF ing.dry_run
           THEN /\ ing' = [ing EXCEPT !.batch = Tail(@), !.counts.total = @ + 1,
                                      !.counts.new = @ + 1, !.last = "ok"]
                /\ UNCHANGED <<journal, upserts, storeVars>>
           ELSE /\ Upsert(p, pid, h, TRUE)
                /\ upserts' = [upserts EXCEPT ![pid] = @ + 1]
                /\ journal' = Append(journal, JournalLine(pid, h, "SUCCESS"))
                /\ ing' = [ing EXCEPT !.batch = Tail(@), !.counts.total = @ + 1,
                                      !.counts.new = @ + 1, !.last = "ok"]
        /\ UNCHANGED <<content, summary>>

\* one round of the loop whose fetch_page_state returns: the hash is that
\* of the page's content
IngestFetched(p) == IngestStored(p, content[Head(ing.batch)])

\* the process is killed in the loop or in close(): the journal and the
\* files stay as they are
IngestKilled(p) ==
    /\ Crash(p)
    /\ ing' = [ing EXCEPT !.running = FALSE]
    /\ UNCHANGED <<content, journal, summary, upserts>>

\* the end of the loop: emit_summary, then db.close() begins
IngestEnd(p) ==
    /\ ing.running /\ ing.batch = <<>>
    /\ summary' = ing.counts
    /\ CloseBegin(p)
    /\ ing' = [ing EXCEPT !.running = FALSE]
    /\ UNCHANGED <<content, journal, upserts>>

(***************************************************************************)
(* NotionReliableClient: the TokenBucket and one _request call.  Time and  *)
(* tokens are counted in units: TokenParts units make a token, and in one  *)
(* unit of time the bucket gains one unit of tokens.  The bucket depends   *)
(* on the clock only through the time since its timestamp, and on that     *)
(* only up to the time that fills it.                                      *)
(***************************************************************************)
Min(a, b) == IF a <= b THEN a ELSE b

\* self.capacity, in units
TokenCap == BURST * TokenParts

\* how one urlopen ends: a response, HTTP 429/5xx, HTTP 403/404, another
\* HTTP error status, URLError or TimeoutError
AttemptOutcomes == {"ok", "transient_status", "permanent_status",
                    "other_status", "network"}

\* time.sleep(2**attempt + jitter), in units of time
Backoff(attempt) == (2 ^ attempt) * RATE_PER_SEC * TokenParts

\* no _request call has been made
ReqIdle ==
    [pc |-> "idle", retries |-> 0, attempt |-> 0, tries |-> 0, paid |-> 0,
     last |-> "none"]

\* the window of the rate bound is not open
NoWindow == [open |-> FALSE, slack |-> 0]

\* no fetch_page_state call is running
FetchIdle ==
    [pc |-> "idle", pages |-> 0, cursor |-> None, got |-> <<>>, err |-> "none"]

\* TokenBucket(RATE_PER_SEC, BURST): full, timestamp = now
ClientVarsInit ==
    /\ bucket = [tokens |-> TokenCap, since |-> 0]
    /\ req = ReqIdle
    /\ win = NoWindow
    /\ fetch = FetchIdle

(***************************************************************************)
(* ChainRecord.detect_states.  An issue is its state and whether it has    *)
(* assignees, a pull request its state and merged, a run its status and    *)
(* created_at; branches only count.  Times are seconds.                    *)
(***************************************************************************)
\* a created_at that is None, empty or not a timestamp
Unparseable == -1

\* the seconds of the staleness threshold
ThresholdSeconds == CI_STUCK_THRESHOLD_MINUTES * 60

IssueInfos == [state : {"open", "OPEN", "closed"}, assignees : BOOLEAN]
PullInfos == [state : {"open", "OPEN", "closed"}, merged : BOOLEAN]
RunInfos == [status : {"in_progress", "queued", "completed"},
             created_at : {Unparseable, 0}]

\* the values of now passed to detect_states and of the wall clock
NowTimes == {ThresholdSeconds, ThresholdSeconds + 1}
WallTimes == {0, ThresholdSeconds + 1}

\* a record without entities
NoSnapshot == [issues |-> <<>>, pull_requests |-> <<>>, branches |-> 0,
               runs |-> <<>>, now |-> 0]

ChainVarsInit ==
    /\ snap = NoSnapshot
    /\ wall = 0
    /\ det = <<>>

\* str.lower()
Lower(str) ==
    CASE str = "OPEN" -> "open"
      [] str = "CLOSED" -> "closed"
      [] OTHER -> str

\* a timestamp parser that reads a missing value as the epoch
ParseGithubTimestamp_Epoch(value, clock) ==
    IF value = Unparseable THEN 0 ELSE value

\* parse_github_timestamp: the value, or datetime.now(timezone.utc) when the
\* value is missing or does not parse
ParseGithubTimestamp(value, clock) ==
    IF value = Unparseable THEN clock ELSE value

\* RunInfo.age_minutes(reference), in seconds
AgeSeconds(run, reference, clock) ==
    reference - ParseGithubTimestamp(run.created_at, clock)

\* a threshold test that takes a run of exactly the threshold as stuck
Stuck_AtThreshold(run, reference, clock) ==
    /\ run.status \in {"in_progress", "queued"}
    /\ AgeSeconds(run, reference, clock) >= ThresholdSeconds

\* run.status in {...} and run.age_minutes(now) > CI_STUCK_THRESHOLD_MINUTES
Stuck(run, reference, clock) ==
    /\ run.status \in {"in_progress", "queued"}
    /\ AgeSeconds(run, reference, clock) > ThresholdSeconds

\* [x for x in q if Test(x)]
Filter(q, Test(_)) == SelectSeq(q, Test)

\* a closed_prs list that forgets 'and not pr.merged'
ClosedPrs_AnyClosed(prs) ==
    LET closed(pr) == Lower(pr.state) = "closed" IN Filter(prs, closed)

\* closed_prs
ClosedPrs(prs) ==
    LET closed(pr) == Lower(pr.state) = "closed" /\ ~pr.merged
    IN  Filter(prs, closed)

\* detect_states(now=s.now) called when the wall clock reads clock
DetectStates(s, clock) ==
    LET isOpen(x) == Lower(x.state) = "open"
        isClosed(x) == Lower(x.state) = "closed"
        stuck(run) == Stuck(run, s.now, clock)
        open_prs == Filter(s.pull_requests, isOpen)
        closed_prs == ClosedPrs(s.pull_requests)
        branches_present == s.branches > 0
        open_issues == Filter(s.issues, isOpen)
        open_issue_assigned ==
            \E n \in DOMAIN open_issues : open_issues[n].assignees
        closed_issues == Filter(s.issues, isClosed)
        stuck_runs == Filter(s.runs, stuck)
        st1 == IF /\ branches_present /\ open_prs = <<>>
                  /\ open_issues = <<>> /\ closed_issues # <<>>
               THEN <<"BRANCH_ONLY">> ELSE <<>>
        st2 == IF open_issue_assigned /\ open_prs = <<>> /\ ~branches_present
               THEN Append(st1, "ISSUE_ONLY_ASSIGNED") ELSE st1
        st3 == IF closed_prs # <<>>
               THEN Append(st2, "PR_CLOSED_CONFLICT") ELSE st2
        st4 == IF stuck_runs # <<>> THEN Append(st3, "CI_STUCK") ELSE st3
    IN  IF Len(open_prs) > 1 THEN Append(st4, "DUPLICATE_PRS") ELSE st4

\* a ChainRecord is built from entity lists, and a now is chosen for it
ChainBuild ==
    /\ snap = NoSnapshot /\ det = <<>>
    /\ \E ni \in 0..MaxEntities : \E np \in 0..(MaxEntities - ni) :
       \E nb \in 0..(MaxEntities - ni - np) :
       \E nr \in 0..(MaxEntities - ni - np - nb) :
       \E is \in [1..ni -> IssueInfos], ps \in [1..np -> PullInfos],
          rs \in [1..nr -> RunInfos], t \in NowTimes :
           snap' = [issues |-> is, pull_requests |-> ps, branches |-> nb,
                    runs |-> rs, now |-> t]
    /\ UNCHANGED <<wall, det>>

\* record.detect_states(now=...) is called and returns
ChainDetect ==
    /\ snap # NoSnapshot
    /\ Len(det) < MaxDetects
    /\ det' = Append(det, DetectStates(snap, wall))
    /\ UNCHANGED <<snap, wall>>

\* the wall clock moves on
ChainClock ==
    /\ \E t \in WallTimes : t > wall /\ wall' = t
    /\ UNCHANGED <<snap, det>>

(***************************************************************************)
(* normalize_content: a text is a sequence of characters, of which the     *)
(* function tells apart the carriage return, the line feed, the other      *)
(* white space (the space) and the rest (letters).                         *)
(***************************************************************************)
Letters == {"a", "b"}
SP == " "
CR == "CR"
LF == "LF"
Chars == Letters \cup {SP, CR, LF}
\* what str.strip() and str.rstrip() remove
Whitespace == {SP, CR, LF}

\* raw.replace("\r\n", "\n"): left to right, without overlap
RECURSIVE ReplaceCrLf(_)
ReplaceCrLf(s) ==
    IF s = <<>> THEN <<>>
    ELSE IF Len(s) >= 2 /\ s[1] = CR /\ s[2] = LF
    THEN <<LF>> \o ReplaceCrLf(SubSeq(s, 3, Len(s)))
    ELSE <<Head(s)>> \o ReplaceCrLf(Tail(s))

\* .replace("\r", "\n")
ReplaceCr(s) == [i \in 1..Len(s) |-> IF s[i] = CR THEN LF ELSE s[i]]

\* text.split("\n"): the lines, one more than there are line feeds
RECURSIVE Split(_)
Split(s) ==
    IF \A i \in 1..Len(s) : s[i] # LF THEN <<s>>
    ELSE LET k == CHOOSE i \in 1..Len(s) :
                    s[i] = LF /\ \A j \in 1..(i - 1) : s[j] # LF
         IN  <<SubSeq(s, 1, k - 1)>> \o Split(SubSeq(s, k + 1, Len(s)))

\* str.rstrip()
RECURSIVE RStrip(_)
RStrip(s) ==
    IF s = <<>> \/ s[Len(s)] \notin Whitespace THEN s
    ELSE RStrip(SubSeq(s, 1, Len(s) - 1))

\* str.lstrip()
RECURSIVE LStrip(_)
LStrip(s) ==
    IF s = <<>> \/ s[1] \notin Whitespace THEN s ELSE LStrip(Tail(s))

\* str.strip()
Strip(s) == LStrip(RStrip(s))

\* the for loop of normalize_content over the lines still to come, blank
\* being the count of blank lines before them: of a run of blank lines the
\* first is kept, and every line kept is right-stripped
RECURSIVE Collapse(_, _)
Collapse(lines, blank) ==
    IF lines = <<>> THEN <<>>
    ELSE LET line == Head(lines)
         IN  IF Strip(line) = <<>>
             THEN IF blank + 1 > 1
                  THEN Collapse(Tail(lines), blank + 1)
                  ELSE <<RStrip(line)>> \o Collapse(Tail(lines), blank + 1)
             ELSE <<RStrip(line)>> \o Collapse(Tail(lines), 0)

RECURSIVE PopBlank(_)
\* a variant of PopBlank that pops the last line whatever it holds
PopBlank_PopsLast(lines) ==
    IF lines = <<>> THEN lines ELSE SubSeq(lines, 1, Len(lines) - 1)

\* while lines and lines[-1].strip() == "": lines.pop()
PopBlank(lines) ==
    IF lines # <<>> /\ Strip(lines[Len(lines)]) = <<>>
    THEN PopBlank(SubSeq(lines, 1, Len(lines) - 1))
    ELSE lines

\* "\n".join(lines)
RECURSIVE Join(_)
Join(lines) ==
    IF lines = <<>> THEN <<>>
    ELSE IF Len(lines) = 1 THEN lines[1]
    ELSE lines[1] \o <<LF>> \o Join(Tail(lines))

\* normalize_content(raw)
NormalizeContent(raw) ==
    Strip(Join(PopBlank(Collapse(Split(ReplaceCr(ReplaceCrLf(raw))), 0))))

\* no text yet
NormIdle == [pc |-> "idle", raw |-> <<>>, once |-> <<>>, twice |-> <<>>]

\* one more character of the text
NormType(c) ==
    /\ norm.pc = "idle"
    /\ Len(norm.raw) < MaxText
    /\ norm' = [norm EXCEPT !.raw = Append(@, c)]

\* n1 = normalize_content(raw)
NormCall ==
    /\ norm.pc = "idle"
    /\ norm' = [norm EXCEPT !.pc = "once", !.once = NormalizeContent(norm.raw)]

\* n2 = normalize_content(n1)
NormAgain ==
    /\ norm.pc = "once"
    /\ norm' = [norm EXCEPT !.pc = "twice", !.twice = NormalizeContent(norm.once)]

(***************************************************************************)
(* get_block_children against a server whose every request succeeds.  The  *)
(* server holds a listing of n pages and answers a request for page k (the *)
(* first page when the request carries no start_cursor) with the blocks of *)
(* page k, a has_more flag and a next_cursor, which may be missing.        *)
(***************************************************************************)
\* the responses a server may give for the pages of a listing of n pages
Servers ==
    UNION {[1..n -> [has_more : BOOLEAN, next_cursor : {None} \cup (1..n)]] :
             n \in 1..MaxListing}

\* no call running, on a client of the given server; sent counts the
\* requests of a call modulo 2
PagerIdle(server) ==
    [server |-> server, pc |-> "idle", cursor |-> None, got |-> <<>>, sent |-> 0]

\* no server yet
NoServer == <<>>

\* the client is pointed at a server
PagerServe(server) ==
    /\ pager.server = NoServer
    /\ pager' = PagerIdle(server)

\* results.extend(...): the pages received so far; beyond MaxGot pages the
\* results are not told apart
Extend(got, k) == IF Len(got) < MaxGot THEN Append(got, k) ELSE got

\* get_block_children is called: results = [], start_cursor = None
PagerBegin ==
    /\ pager.server # NoServer
    /\ pager.pc \in {"idle", "returned"}
    /\ pager' = [pager EXCEPT !.pc = "request", !.cursor = None, !.got = <<>>,
                              !.sent = 0]

\* one round of the loop: the request, extend, the has_more test, and the
\* next cursor
PagerRequest ==
    LET k == IF pager.cursor = None THEN 1 ELSE pager.cursor
        data == pager.server[k]
    IN  /\ pager.pc = "request"
        /\ pager' = IF ~data.has_more
                    THEN [pager EXCEPT !.got = Extend(@, k), !.pc = "returned",
                                       !.sent = (@ + 1) % 2]
                    ELSE [pager EXCEPT !.got = Extend(@, k),
                                       !.cursor = data.next_cursor,
                                       !.sent = (@ + 1) % 2]

PureVarsInit ==
    /\ norm = NormIdle
    /\ pager = PagerIdle(NoServer)

\* no session has copied, written or promoted anything
NoShadow == [copy |-> [p \in Procs |-> NoFile], last |-> NoFile, by |-> "none"]

ExtraVarsInit ==
    ClientVarsInit /\ ChainVarsInit /\ PureVarsInit /\ shadow = NoShadow

\* d units of time pass: the window has d more units to spend, counted up to
\* twice the capacity
Pass(d) ==
    /\ bucket' = [bucket EXCEPT !.since = Min(TokenCap, @ + d)]
    /\ win' = IF win.open
              THEN [win EXCEPT !.slack = Min(2 * TokenCap, @ + d)]
              ELSE win

\* _request is called on a client built with retries
RequestBegin(retries) ==
    /\ req.pc \in {"idle", "returned", "raised_permanent", "raised_transient"}
    /\ req' = [pc |-> "consume", retries |-> retries, attempt |-> 0,
               tries |-> 0, paid |-> 0, last |-> "none"]
    /\ UNCHANGED <<bucket, win, fetch>>

\* the tokens after the replenish of consume
Replenished == Min(TokenCap, bucket.tokens + bucket.since)

\* the bucket after a consume that forgets to take the token
Taken_KeepsToken(t) == t

\* self.tokens -= n
Taken(t) == t - TokenParts

\* one round of TokenBucket.consume up to its sleep, or up to its return
\* and the urlopen call that follows it: the attempt is sent, and counted in
\* the window, and the call waits for the outcome
Consume ==
    /\ req.pc = "consume"
    /\ IF Replenished >= TokenParts
       THEN /\ bucket' = [tokens |-> Taken(Replenished), since |-> 0]
            /\ req' = [req EXCEPT !.pc = "send", !.paid = @ + 1]
            /\ win' = [win EXCEPT !.slack = IF win.open THEN @ - TokenParts ELSE @]
       ELSE /\ bucket' = [tokens |-> Replenished, since |-> 0]
            /\ req' = [req EXCEPT !.pc = "sleep"]
            /\ UNCHANGED win
    /\ UNCHANGED fetch

\* time.sleep(min(sleep_for, 1.0)) of consume returns after d units, not
\* before the time asked for
ConsumeSleep(d) ==
    /\ req.pc = "sleep"
    /\ d >= TokenParts - bucket.tokens
    /\ Pass(d)
    /\ req' = [req EXCEPT !.pc = "consume"]
    /\ UNCHANGED fetch

\* a retry guard that allows one attempt too many
MayRetry_OffByOne(attempt, retries) == attempt < retries

\* attempt < self.retries - 1
MayRetry(attempt, retries) == attempt < retries - 1

\* a classification that retries HTTP 403/404 like a transient status
Classify_RetriesPermanent(outcome, attempt, retries) ==
    IF outcome = "ok" THEN "return"
    ELSE IF outcome \in {"transient_status", "permanent_status", "network"}
            /\ MayRetry(attempt, retries) THEN "retry"
    ELSE IF outcome = "permanent_status" THEN "raise_permanent"
    ELSE "raise_transient"

\* what _request does with the outcome of an attempt
Classify(outcome, attempt, retries) ==
    IF outcome = "ok" THEN "return"
    ELSE IF outcome \in {"transient_status", "network"}
            /\ MayRetry(attempt, retries) THEN "retry"
    ELSE IF outcome = "permanent_status" THEN "raise_permanent"
    ELSE "raise_transient"

\* the outcome of the urlopen of _request and its handling, the backoff
\* sleep of a retry included
Attempt(outcome) ==
    LET todo == Classify(outcome, req.attempt, req.retries)
    IN  /\ req.pc = "send"
        /\ IF todo = "retry"
           THEN /\ req' = [req EXCEPT !.pc = "consume", !.attempt = @ + 1,
                                      !.tries = @ + 1, !.last = outcome]
                /\ bucket' = [bucket EXCEPT
                                !.since = Min(TokenCap, @ + Backoff(req.attempt + 1))]
                /\ win' = IF win.open
                          THEN [win EXCEPT !.slack =
                                  Min(2 * TokenCap, @ + Backoff(req.attempt + 1))]
                          ELSE win
           ELSE /\ req' = [req EXCEPT
                             !.pc = CASE todo = "return" -> "returned"
                                      [] todo = "raise_permanent" -> "raised_permanent"
                                      [] OTHER -> "raised_transient",
                             !.tries = @ + 1, !.last = outcome]
                /\ UNCHANGED <<bucket, win>>
        /\ UNCHANGED fetch

\* an instant from which attempts and time are counted: BURST tokens to
\* spend, no time passed yet
Mark ==
    /\ win' = [open |-> TRUE, slack |-> TokenCap]
    /\ UNCHANGED <<bucket, req, fetch>>

(***************************************************************************)
(* fetch_page_state: get_page, then get_block_children, which requests the *)
(* pages of the listing one after the other, then flatten_blocks and       *)
(* stable_hash.  A request is a _request call: it returns, or raises       *)
(* PermanentNotionError or TransientNotionError.  The listing of a page    *)
(* has pages 1..n; the response for page k carries the blocks of page k,   *)
(* has_more = (k < n) and next_cursor = k + 1.                             *)
(***************************************************************************)
\* the pages of a whole listing, in order
Listing(n) == [k \in 1..n |-> k]

\* a loop that takes the first response for the whole listing
HasMore_Ignored(k, n) == FALSE

\* data.get("has_more") of the response for page k of n
HasMore(k, n) == k < n

\* stable_hash of the flattened blocks: the content hash of the page for
\* the blocks of its whole listing, another value for any other blocks
StableHash(page_id, got, n) ==
    IF got = Listing(n) THEN content[page_id] ELSE NumHashes + 1 + Len(got)

\* fetch_page_state is called for a page whose listing has n pages
FetchBegin(n) ==
    /\ ing.running /\ ing.batch # <<>>
    /\ fetch.pc = "idle"
    /\ fetch' = [pc |-> "get_page", pages |-> n, cursor |-> None,
                 got |-> <<>>, err |-> "none"]
    /\ UNCHANGED <<bucket, req, win>>

\* meta = self.get_page(page_id)
GetPage(outcome) ==
    /\ fetch.pc = "get_page"
    /\ fetch' = IF outcome = "ok"
                THEN [fetch EXCEPT !.pc = "get_block_children"]
                ELSE [fetch EXCEPT !.pc = "raised", !.err = outcome]
    /\ UNCHANGED <<bucket, req, win>>

\* one round of the loop of get_block_children
GetBlockChildren(outcome) ==
    LET k == IF fetch.cursor = None THEN 1 ELSE fetch.cursor
    IN  /\ fetch.pc = "get_block_children"
        /\ fetch' =
             IF outcome # "ok"
             THEN [fetch EXCEPT !.pc = "raised", !.err = outcome]
             ELSE IF HasMore(k, fetch.pages)
             THEN [fetch EXCEPT !.got = Append(@, k), !.cursor = k + 1]
             ELSE [fetch EXCEPT !.got = Append(@, k), !.pc = "returned"]
        /\ UNCHANGED <<bucket, req, win>>

\* the round of ingest_pages after fetch_page_state has returned
FetchStored(p) ==
    /\ fetch.pc = "returned"
    /\ IngestStored(p, StableHash(Head(ing.batch), fetch.got, fetch.pages))
    /\ fetch' = FetchIdle
    /\ UNCHANGED <<bucket, req, win>>

\* the round of ingest_pages after fetch_page_state has raised
FetchFailed(p) ==
    /\ fetch.pc = "raised"
    /\ IngestFailed(p, fetch.err)
    /\ fetch' = FetchIdle
    /\ UNCHANGED <<bucket, req, win>>

(***************************************************************************)
(* Specification EnsureSpec: the mutex command is run again and again, one *)
(* run after the other, for any candidates, with any outcome of the        *)
(* dependency check and of the requests, while tickets are closed and      *)
(* reopened.                                                               *)
(***************************************************************************)
EnsureInit ==
    /\ now = 0
    /\ ObjVarsInit
    /\ StoreVarsInit
    /\ IngestVarsInit
    /\ MutexVarsInit
    /\ ExtraVarsInit
    /\ HistVarsInit

\* the process of the runs that follow one another
Runner == "p1"

EnsureBegin ==
    \E c \in Issues, has_series \in BOOLEAN :
        /\ runs[Runner] < MaxCalls
        /\ Begin(Runner, c, has_series)
        /\ runs' = [runs EXCEPT ![Runner] = @ + 1]
        /\ UNCHANGED <<notMutex, holder, race0>>

EnsureSearch == Search(Runner) /\ UNCHANGED <<notMutex, histVars>>

EnsureCreate == Create(Runner) /\ UNCHANGED <<notMutex, histVars>>

EnsureCheckDeps ==
    \E blocked \in BOOLEAN :
        CheckDeps(Runner, blocked) /\ UNCHANGED <<notMutex, histVars>>

EnsureApplyWrite == ApplyWrite(Runner) /\ UNCHANGED <<notMutex, histVars>>

EnsureFail == Fail(Runner) /\ UNCHANGED <<notMutex, histVars>>

EnsureClose == \E i \in Issues : CloseIssue(i) /\ UNCHANGED <<notMutex, histVars>>

EnsureReopen == \E i \in Issues : ReopenIssue(i) /\ UNCHANGED <<notMutex, histVars>>

EnsureTick == Tick /\ UNCHANGED <<notMutex, histVars>>

EnsureNext ==
    \/ EnsureBegin \/ EnsureSearch \/ EnsureCreate \/ EnsureCheckDeps
    \/ EnsureApplyWrite \/ EnsureFail \/ EnsureClose \/ EnsureReopen \/ EnsureTick

EnsureSpec == EnsureInit /\ [][EnsureNext]_vars

(***************************************************************************)
(* Specification SeqSpec: non-overlapping runs on one series, without      *)
(* dependency blocking and without failing requests.  holder records the   *)
(* issue last reported 'acquired' or 'already-active' for as long as its   *)
(* ticket stays open.                                                      *)
(***************************************************************************)
SeqInit ==
    /\ now = 0
    /\ ObjVarsInit
    /\ StoreVarsInit
    /\ IngestVarsInit
    /\ MutexVarsInit
    /\ ExtraVarsInit
    /\ HistVarsInit

SeqBegin ==
    \E c \in Issues :
        /\ runs[Runner] < MaxCalls
        /\ Begin(Runner, c, TRUE)
        /\ runs' = [runs EXCEPT ![Runner] = @ + 1]
        /\ UNCHANGED <<notMutex, holder, race0>>

SeqSearch == Search(Runner) /\ UNCHANGED <<notMutex, histVars>>

SeqCreate == Create(Runner) /\ UNCHANGED <<notMutex, histVars>>

SeqCheckDeps == CheckDeps(Runner, FALSE) /\ UNCHANGED <<notMutex, histVars>>

SeqApplyWrite ==
    /\ ApplyWrite(Runner)
    /\ holder' = IF out'[Runner] \in {"acquired", "already-active"}
                 THEN (IF issueOpen[loc[Runner].cand] THEN loc[Runner].cand ELSE None)
                 ELSE holder
    /\ UNCHANGED <<notMutex, runs, race0>>

SeqClose ==
    \E i \in Issues :
        /\ CloseIssue(i)
        /\ holder' = IF holder = i THEN None ELSE holder
        /\ UNCHANGED <<notMutex, runs, race0>>

SeqReopen == \E i \in Issues : ReopenIssue(i) /\ UNCHANGED <<notMutex, histVars>>

SeqTick == Tick /\ UNCHANGED <<notMutex, histVars>>

SeqNext ==
    \/ SeqBegin \/ SeqSearch \/ SeqCreate \/ SeqCheckDeps
    \/ SeqApplyWrite \/ SeqClose \/ SeqReopen \/ SeqTick

SeqSpec == SeqInit /\ [][SeqNext]_vars

\* C1: once candidate A has been reported 'acquired' or 'already-active' and
\* A's ticket stays open, no later non-overlapping call for a different
\* candidate B returns 'acquired' or changes the persisted active_issue, and
\* every such call for an open B returns 'queued'.
C1_Step ==
    (/\ pc[Runner] = "apply"
     /\ pc'[Runner] = "idle"
     /\ holder # None
     /\ loc[Runner].cand # holder)
        => /\ out'[Runner] # "acquired"
           /\ \A b \in Persisted' : b.active_issue = holder
           /\ \A b \in Persisted : b.active_issue = holder
           /\ loc[Runner].cand_open => out'[Runner] = "queued"

C1_SequentialMutualExclusion == [][C1_Step]_vars

\* C1 witness: A owns the series, its ticket is open, and a later call for
\* another candidate was queued behind it.
C1_Witness ==
    /\ holder # None
    /\ issueOpen[holder]
    /\ pc[Runner] = "idle"
    /\ out[Runner] = "queued"
    /\ \E b \in Persisted : b.active_issue = holder /\ b.queue # <<>>

(***************************************************************************)
(* Specification RaceSpec: two processes race ensure_series_state on one   *)
(* series, each for its own open candidate, in any interleaving of their   *)
(* requests; afterwards each candidate runs the command once more, without *)
(* overlap.  Both candidates' tickets stay open; other tickets are closed  *)
(* and reopened freely.  The race starts from no tracking issue or from    *)
(* one whose record is any state a SeriesState can be in.                  *)
(***************************************************************************)
\* the candidate of each process
Cand(p) == IF p = "p1" THEN 1 ELSE 2

Candidates == {Cand(p) : p \in Procs}

\* the lists without duplicates over the issue numbers
QueueValues ==
    {q \in UNION {[1..n -> Issues] : n \in 0..NumIssues} : NoDuplicates(q)}

\* the states a SeriesState is in after calls from the default state
RecordStates ==
    {s \in [active_issue : {None} \cup Issues, queue : QueueValues,
            updated_at : {0}, version : {1}] : ~In(s.active_issue, s.queue)}

RaceInit ==
    /\ now = 0
    /\ ObjVarsInit
    /\ StoreVarsInit
    /\ IngestVarsInit
    /\ ExtraVarsInit
    /\ issueOpen \in {f \in [Issues -> BOOLEAN] : \A c \in Candidates : f[c]}
    /\ docs \in {<<>>} \cup {<<[body |-> ToBody(s), updatedAt |-> 0]>> : s \in RecordStates}
    /\ pc = [p \in Procs |-> "idle"]
    /\ loc = [p \in Procs |-> LocIdle]
    /\ out = [p \in Procs |-> NoOutput]
    /\ exitCode = [p \in Procs |-> NoExit]
    /\ holder = None
    /\ runs = [p \in Procs |-> 0]
    /\ race0 = LET a == IF docs = <<>> THEN None ELSE docs[1].body.active_issue
               IN [existed |-> docs # <<>>,
                   active_issue |-> a,
                   foreign_open |-> a \notin Candidates \cup {None} /\ issueOpen[a],
                   overlapped |-> FALSE]

\* both first runs have ended
Raced == \A p \in Procs : runs[p] >= 1 /\ pc[p] = "idle"

\* both second runs have ended
Settled == \A p \in Procs : runs[p] = 2 /\ pc[p] = "idle"

RaceBegin ==
    \E p \in Procs :
        /\ runs[p] = 0 \/ (runs[p] = 1 /\ Raced)
        /\ Begin(p, Cand(p), TRUE)
        /\ runs' = [runs EXCEPT ![p] = @ + 1]
        /\ race0' = [race0 EXCEPT !.overlapped =
                        @ \/ \E q \in Procs \ {p} : pc[q] # "idle"]
        /\ UNCHANGED <<notMutex, holder>>

RaceSearch == \E p \in Procs : Search(p) /\ UNCHANGED <<notMutex, histVars>>

RaceCreate == \E p \in Procs : Create(p) /\ UNCHANGED <<notMutex, histVars>>

RaceCheckDeps == \E p \in Procs : CheckDeps(p, FALSE) /\ UNCHANGED <<notMutex, histVars>>

RaceApplyWrite == \E p \in Procs : ApplyWrite(p) /\ UNCHANGED <<notMutex, histVars>>

RaceClose ==
    \E i \in Issues \ Candidates : CloseIssue(i) /\ UNCHANGED <<notMutex, histVars>>

RaceReopen ==
    \E i \in Issues \ Candidates :
        /\ ReopenIssue(i)
        /\ race0' = [race0 EXCEPT !.foreign_open = @ \/ i = race0.active_issue]
        /\ UNCHANGED <<notMutex, holder, runs>>

RaceTick == Tick /\ UNCHANGED <<notMutex, histVars>>

RaceNext ==
    \/ RaceBegin \/ RaceSearch \/ RaceCreate \/ RaceCheckDeps
    \/ RaceApplyWrite \/ RaceClose \/ RaceReopen \/ RaceTick

RaceSpec == RaceInit /\ [][RaceNext]_vars

\* after the re-runs one candidate is reported 'already-active', the other
\* 'queued', and the record names the first as owner and queues the second
Converged ==
    \E p, q \in Procs :
        /\ p # q
        /\ out[p] = "already-active"
        /\ out[q] = "queued"
        /\ \A b \in Persisted : b.active_issue = Cand(p) /\ In(Cand(q), b.queue)

\* C7 as stated: after any race of two open candidates, once each candidate
\* has re-run the command without overlap, the series has converged.
C7_ConvergesAfterAnyRace == Settled => Converged

\* C7 amended: the series has converged when the race started from an
\* existing tracking issue whose recorded owner was nobody, one of the two
\* candidates, or a ticket that was closed and stayed closed.
C7_ConvergesWithoutForeignOwner ==
    (Settled /\ race0.existed /\ ~race0.foreign_open) => Converged

\* C7 witness: both processes read a record without owner while the other
\* was running, and both candidates have re-run.
C7_Witness ==
    /\ Settled
    /\ race0.existed
    /\ race0.active_issue = None
    /\ race0.overlapped
    /\ Converged

\* process q ends its run with the status, and no other process is running
EndsWith(q, status) ==
    /\ pc[q] = "apply" /\ pc'[q] = "idle"
    /\ out'[q] = status

\* C33: the read-modify-write is not atomic: when two processes run for
\* different open candidates on a record without owner, they can both read
\* that record and both return 'acquired'; the persisted record then names
\* as owner only the candidate of the process that wrote last.
C33_Step ==
    \A p, q \in Procs :
        (/\ p # q
         /\ race0.existed /\ race0.active_issue = None
         /\ runs[p] = 1 /\ runs[q] = 1
         /\ pc[p] = "idle" /\ out[p] = "acquired"
         /\ EndsWith(q, "acquired"))
            => /\ loc[q].original.active_issue = None
               /\ \A b \in Persisted' :
                     /\ b.active_issue = Cand(q)
                     /\ ~In(Cand(q), b.queue)

C33_BothAcquireLastWriterWins == [][C33_Step]_vars

\* C33 witness: both first runs overlapped on a record without owner, both
\* have returned 'acquired', and the record names one of the candidates.
C33_Witness ==
    /\ race0.existed /\ race0.active_issue = None /\ race0.overlapped
    /\ \A p \in Procs : runs[p] = 1 /\ pc[p] = "idle" /\ out[p] = "acquired"
    /\ \E p \in Procs : \A b \in Persisted : b.active_issue = Cand(p)

\* process p was reported 'queued' by its last run, and every record a
\* search can return has its candidate in the queue
Queued(p) ==
    /\ pc[p] = "idle"
    /\ out[p] = "queued"
    /\ Persisted # {}
    /\ \A b \in Persisted : In(Cand(p), b.queue)

\* the candidate of p is in the queue or the owner in every record a
\* search can return after the step
Kept(p) ==
    \A b \in Persisted' : In(Cand(p), b.queue) \/ b.active_issue = Cand(p)

\* C39 as stated: a candidate that was reported 'queued' stays in the
\* persisted queue until it becomes the owner; no write of another process
\* removes it.
C39_StepOriginal == \A p \in Procs : Queued(p) => Kept(p)

C39_QueuedStaysQueued == [][C39_StepOriginal]_vars

\* C39 amended: no write of another process that had read a record with the
\* candidate in its queue removes it.
C39_Step ==
    \A p, q \in Procs :
        (/\ p # q
         /\ Queued(p)
         /\ pc[q] = "apply" /\ pc'[q] = "idle"
         /\ In(Cand(p), loc[q].st.queue))
            => Kept(p)

C39_QueuedKeptByLaterReaders == [][C39_Step]_vars

\* C39 witness: one candidate is queued, and the other process, which read
\* the record with that candidate in the queue, has written it and left the
\* candidate queued.
C39_Witness ==
    \E p, q \in Procs :
        /\ p # q
        /\ Queued(p)
        /\ pc[q] = "idle" /\ runs[q] = 2 /\ runs[p] = 1
        /\ out[q] \in {"acquired", "already-active"}
        /\ \A b \in Persisted : b.active_issue = Cand(q) /\ b.updated_at = now
        /\ now > 0

(***************************************************************************)
(* Claims about the results of the command (checked under EnsureSpec).     *)
(***************************************************************************)
\* C9 as stated: every status reported by ensure_series_state or printed by
\* main is 'acquired', 'queued', 'already-active', 'no-series' or 'error'.
C9_FiveStatuses ==
    \A p \in Procs :
        out[p] # NoOutput =>
            out[p] \in {"acquired", "queued", "already-active", "no-series", "error"}

\* C9 amended: the status is one of those five or 'queued-dependency', which
\* is returned when the candidate has blocked dependencies.
C9_SixStatuses ==
    \A p \in Procs :
        out[p] # NoOutput =>
            out[p] \in {"acquired", "queued", "already-active", "no-series", "error",
                        "queued-dependency"}

\* C9 witness: a run ended with the sixth status after the record had an
\* owner.
C9_Witness ==
    /\ out[Runner] = "queued-dependency"
    /\ \E b \in Persisted : b.active_issue # None /\ b.queue # <<>>

\* the step ends a run of the command: main returns
Returns ==
    /\ pc'[Runner] = "idle"
    /\ pc[Runner] # "idle" \/ runs'[Runner] # runs[Runner]

\* the record the run read names another issue as owner, and load_issue
\* found that issue's ticket open (on the path of blocked dependencies,
\* where the ticket is not loaded, it is open)
ReadOpenForeignOwner ==
    LET l == loc[Runner]
    IN  /\ l.st.active_issue \notin {None, l.cand}
        /\ \/ pc[Runner] = "apply" /\ l.aio = "True"
           \/ pc[Runner] = "deps" /\ issueOpen[l.st.active_issue]

\* C32: the command exits with status 1 exactly when the status printed is
\* 'queued', 'queued-dependency' or 'error', and with 0 when it is
\* 'acquired', 'already-active' or 'no-series'; it exits 1 whenever another
\* open issue of the series is the active owner.
C32_Step ==
    Returns =>
        /\ exitCode'[Runner] = 1 <=>
              out'[Runner] \in {"queued", "queued-dependency", "error"}
        /\ exitCode'[Runner] = 0 <=>
              out'[Runner] \in {"acquired", "already-active", "no-series"}
        /\ ReadOpenForeignOwner => exitCode'[Runner] = 1

C32_ExitStatusTellsOwnership == [][C32_Step]_vars

\* C32 witness: a run for a candidate with blocked dependencies has exited
\* with 1 while the record names another issue, whose ticket is open, as
\* owner.
C32_Witness ==
    /\ pc[Runner] = "idle"
    /\ out[Runner] = "queued-dependency"
    /\ exitCode[Runner] = 1
    /\ \E b \in Persisted :
          /\ b.active_issue # None
          /\ issueOpen[b.active_issue]
          /\ b.queue # <<>>
          /\ ~In(b.active_issue, b.queue)

\* C34: a call whose transition leaves active_issue and queue as they were
\* read ('already-active' for a candidate that is not queued, 'queued' for a
\* candidate that is in the queue) does not update the tracking document.
C34_Step ==
    LET l == loc[Runner]
        r == ApplyCandidate(l.st, l.cand, l.cand_open, l.aio, now)
    IN  (/\ pc[Runner] = "apply" /\ pc'[Runner] = "idle"
         /\ out'[Runner] \in {"already-active", "queued"}
         /\ r.state.active_issue = l.st.active_issue
         /\ r.state.queue = l.st.queue)
            => docs' = docs

C34_NoNeedlessWrite == [][C34_Step]_vars

\* C35: on every path, the path of blocked dependencies included, a
\* candidate whose ticket is not open is neither made active_issue nor
\* appended to the queue of the persisted record, and the call fails.
C35_Step ==
    LET l == loc[Runner]
    IN  (Returns /\ pc[Runner] # "idle" /\ ~l.cand_open)
            => /\ out'[Runner] = "error"
               /\ \A i \in 1..Len(docs) :
                     /\ docs'[i].body.active_issue = l.cand
                           => docs[i].body.active_issue = l.cand
                     /\ In(l.cand, docs'[i].body.queue)
                           => In(l.cand, docs[i].body.queue)

C35_ClosedCandidateNeverRecorded == [][C35_Step]_vars

(***************************************************************************)
(* Specification StoreSpec: one session of each process on one store path: *)
(* open, write, leave the scope and close, or crash before close().         *)
(***************************************************************************)
StoreInit ==
    /\ now = 0
    /\ ObjVarsInit
    /\ MutexVarsInit
    /\ ExtraVarsInit
    /\ HistVarsInit
    /\ StoreVarsInit
    /\ IngestVarsInit

StoreOpen ==
    \E p \in Procs : spc[p] = "none" /\ Open(p) /\ UNCHANGED notStore

StoreUpsert ==
    \E p \in Procs, i \in PageIds, h \in Hashes, ok \in BOOLEAN :
        Upsert(p, i, h, ok) /\ UNCHANGED notStore

StoreRecord ==
    \E p \in Procs, n \in RecordedIssues, i \in PageIds, ok \in BOOLEAN :
        Record(p, n, i, ok) /\ UNCHANGED notStore

StoreCloseBegin == \E p \in Procs : CloseBegin(p) /\ UNCHANGED notStore

StoreRaise == \E p \in Procs : ScopeRaise(p) /\ UNCHANGED notStore

StoreLkExists == \E p \in Procs : LkExists(p) /\ UNCHANGED notStore

StoreLkRead == \E p \in Procs : LkRead(p) /\ UNCHANGED notStore

StoreLkUnlink == \E p \in Procs : LkUnlink(p) /\ UNCHANGED notStore

StoreLkWrite == \E p \in Procs : LkWrite(p) /\ UNCHANGED notStore

StoreMove == \E p \in Procs, ok \in BOOLEAN : Move(p, ok) /\ UNCHANGED notStore

StoreRelease == \E p \in Procs : Release(p) /\ UNCHANGED notStore

\* a crash before close()
StoreCrash == \E p \in Procs : spc[p] = "open" /\ Crash(p) /\ UNCHANGED notStore

StoreNext ==
    \/ StoreOpen \/ StoreUpsert \/ StoreRecord \/ StoreCloseBegin \/ StoreRaise
    \/ StoreLkExists \/ StoreLkRead \/ StoreLkUnlink \/ StoreLkWrite
    \/ StoreMove \/ StoreRelease \/ StoreCrash

StoreSpec == StoreInit /\ [][StoreNext]_vars

(***************************************************************************)
(* Specification LockSpec: every process opens one session and closes it;  *)
(* a process may be killed at any point, also while it holds the lock;     *)
(* time passes.  LockFairSpec adds that a live process takes its next step *)
(* and that the clock advances.                                            *)
(***************************************************************************)
LockOpen == \E p \in Procs : spc[p] = "none" /\ Open(p) /\ UNCHANGED notStore

LockCloseBegin == \E p \in Procs : CloseBegin(p) /\ UNCHANGED notStore

\* the steps of close() after conn.close()
CloseStep(p) ==
    (LkExists(p) \/ LkRead(p) \/ LkUnlink(p) \/ LkWrite(p) \/ Move(p, TRUE) \/ Release(p))
        /\ UNCHANGED notStore

LockCloseStep == \E p \in Procs : CloseStep(p)

LockCrash == \E p \in Procs : Crash(p) /\ UNCHANGED notStore

LockElapse == Elapse(LOCK_STALE_SECONDS) /\ UNCHANGED notStore

LockNext ==
    \/ LockOpen \/ LockCloseBegin \/ LockCloseStep \/ LockCrash \/ LockElapse

LockSpec == StoreInit /\ [][LockNext]_vars

LockFairSpec ==
    /\ LockSpec
    /\ \A p \in Procs : WF_vars(CloseStep(p))
    /\ WF_vars(LockElapse)

(***************************************************************************)
(* Specification PromoteSpec: the sessions of StoreSpec, with a record of  *)
(* what each session copied at open and committed since (shadow.copy) and  *)
(* of the session whose shutil.move succeeded last (shadow.by, and what    *)
(* that session had copied and committed: shadow.last).                    *)
(***************************************************************************)
notPromote == <<now, objVars, mutexVars, ingestVars, histVars,
                clientVars, chainVars, pureVars>>

PromoteOpen ==
    \E p \in Procs :
        /\ spc[p] = "none"
        /\ Open(p)
        /\ shadow' = [shadow EXCEPT !.copy[p] = Migrate(fs[OriginalPath])]
        /\ UNCHANGED notPromote

PromoteUpsert ==
    \E p \in Procs, i \in PageIds, h \in Hashes, ok \in BOOLEAN :
        /\ Upsert(p, i, h, ok)
        /\ shadow' = IF ok THEN [shadow EXCEPT !.copy[p].pages[i] = h] ELSE shadow
        /\ UNCHANGED notPromote

PromoteRecord ==
    \E p \in Procs, n \in RecordedIssues, i \in PageIds, ok \in BOOLEAN :
        /\ Record(p, n, i, ok)
        /\ shadow' = IF ok THEN [shadow EXCEPT !.copy[p].issues[n] = i] ELSE shadow
        /\ UNCHANGED notPromote

PromoteCloseBegin == \E p \in Procs : CloseBegin(p) /\ UNCHANGED notStore

PromoteRaise == \E p \in Procs : ScopeRaise(p) /\ UNCHANGED notStore

PromoteLock ==
    \E p \in Procs :
        (LkExists(p) \/ LkRead(p) \/ LkUnlink(p) \/ LkWrite(p)) /\ UNCHANGED notStore

PromoteMove ==
    \E p \in Procs, ok \in BOOLEAN :
        /\ Move(p, ok)
        /\ shadow' = IF ok THEN [shadow EXCEPT !.last = shadow.copy[p], !.by = p]
                     ELSE shadow
        /\ UNCHANGED notPromote

PromoteRelease == \E p \in Procs : Release(p) /\ UNCHANGED notStore

PromoteCrash == \E p \in Procs : spc[p] = "open" /\ Crash(p) /\ UNCHANGED notStore

PromoteNext ==
    \/ PromoteOpen \/ PromoteUpsert \/ PromoteRecord \/ PromoteCloseBegin
    \/ PromoteRaise \/ PromoteLock \/ PromoteMove \/ PromoteRelease \/ PromoteCrash

PromoteSpec == StoreInit /\ [][PromoteNext]_vars

\* every session has closed or was abandoned, and one has promoted
AllClosed ==
    /\ \A p \in Procs : spc[p] \in {"done", "crashed"}
    /\ shadow.by # "none"

\* C37: last writer wins on the whole file: after all sessions on one path
\* have closed, the store file equals the complete working copy of the
\* session whose promote step happened last (what it copied at open plus its
\* own committed writes), never a merge of two working copies.
C37_LastPromoteWinsWholeFile == AllClosed => fs[OriginalPath] = shadow.last

\* C37 witness: two overlapping sessions have both promoted; the file has
\* the page the last one wrote and lacks the page only the other one wrote.
C37_Witness ==
    \E p, q \in Procs, i, j \in PageIds :
        /\ p # q /\ i # j
        /\ AllClosed /\ overlap
        /\ spc[p] = "done" /\ spc[q] = "done"
        /\ exc[p] = "none" /\ exc[q] = "none"
        /\ shadow.by = p
        /\ shadow.copy[p].pages[i] # NoRow /\ shadow.copy[p].pages[j] = NoRow
        /\ shadow.copy[q].pages[j] # NoRow
        /\ fs[OriginalPath].pages[i] # NoRow
        /\ fs[OriginalPath].pages[j] = NoRow

(***************************************************************************)
(* Specification ReopenSpec: one process opens the store several times,    *)
(* one session after the other; the first session upserts pages, the later *)
(* sessions write nothing.  The store file may exist beforehand, stamped   *)
(* by an older, the current or a newer schema version.                     *)
(***************************************************************************)
\* a store file without rows, stamped with the versions vs
StampedFile(vs) == [NoFile EXCEPT !.exists = TRUE, !.schema = vs]

ReopenInit ==
    /\ now = 0
    /\ ObjVarsInit
    /\ MutexVarsInit
    /\ ExtraVarsInit
    /\ HistVarsInit
    /\ IngestVarsInit
    /\ fs \in {[x \in Paths |-> IF x = OriginalPath THEN f ELSE NoFile] :
                 f \in {NoFile, StampedFile({SCHEMA_VERSION - 1}),
                        StampedFile({SCHEMA_VERSION}),
                        StampedFile({SCHEMA_VERSION - 1, SCHEMA_VERSION + 1})}}
    /\ lockFile = NoLock
    /\ spc = [p \in Procs |-> "none"]
    /\ sess = [p \in Procs |-> 0]
    /\ exc = [p \in Procs |-> "none"]
    /\ overlap = FALSE

ReopenOpen ==
    /\ sess[Runner] < MaxSessions
    /\ spc[Runner] \in {"none", "done"}
    /\ Open(Runner) /\ UNCHANGED notStore

ReopenUpsert ==
    \E i \in PageIds, h \in Hashes :
        /\ sess[Runner] = 1
        /\ Upsert(Runner, i, h, TRUE) /\ UNCHANGED notStore

ReopenCloseBegin == CloseBegin(Runner) /\ UNCHANGED notStore

ReopenCloseStep == CloseStep(Runner) /\ UNCHANGED notStore

ReopenNext == ReopenOpen \/ ReopenUpsert \/ ReopenCloseBegin \/ ReopenCloseStep

ReopenSpec == ReopenInit /\ [][ReopenNext]_vars

C16_Step ==
    /\ sess'[Runner] >= 2 =>
          /\ fs'[OriginalPath].pages = fs[OriginalPath].pages
          /\ spc'[Runner] = "open" =>
                 fs'[TmpPath(Runner)].pages = fs'[OriginalPath].pages
    /\ MaxVersion(fs'[OriginalPath]) >= MaxVersion(fs[OriginalPath])
    /\ spc'[Runner] = "open" =>
           MaxVersion(fs'[TmpPath(Runner)]) >= MaxVersion(fs'[OriginalPath])

\* C16: after the session that upserts has closed, every later session of a
\* sequence of sessions that write nothing reads back the pages of the store
\* file with the same content_hash and leaves them so, and the largest
\* schema_version, in the file and in every working copy, never decreases.
C16_ReopenRoundTrip == [][C16_Step]_vars

\* the third session is open and reads back the page the first one upserted
C16_Witness ==
    /\ sess[Runner] = 3
    /\ spc[Runner] = "open"
    /\ \E i \in PageIds : fs[TmpPath(Runner)].pages[i] = NumHashes
    /\ fs[TmpPath(Runner)].pages = fs[OriginalPath].pages
    /\ MaxVersion(fs[OriginalPath]) > SCHEMA_VERSION

(***************************************************************************)
(* Specification IngestSpec: consecutive ingest_pages runs of one process  *)
(* on one journal and one store path; the pages are not edited.            *)
(***************************************************************************)
IngestInit ==
    /\ now = 0
    /\ ObjVarsInit
    /\ MutexVarsInit
    /\ ExtraVarsInit
    /\ HistVarsInit
    /\ StoreVarsInit
    /\ content \in [PageIds -> Hashes]
    /\ journal = <<>>
    /\ ing = IngIdle
    /\ summary = NoCounts
    /\ upserts = [i \in PageIds |-> 0]

notIngest == <<now, objVars, mutexVars, histVars, extraVars>>

IngestRunBegin ==
    \E page_ids \in Batches, dry_run \in BOOLEAN :
        /\ sess[Runner] < MaxRuns
        /\ IngestBegin(Runner, page_ids, dry_run)
        /\ UNCHANGED notIngest

IngestRunFailed ==
    \E outcome \in {"perm", "transient"} :
        IngestFailed(Runner, outcome) /\ UNCHANGED notIngest

IngestRunFetched == IngestFetched(Runner) /\ UNCHANGED notIngest

IngestRunEnd == IngestEnd(Runner) /\ UNCHANGED notIngest

IngestRunClose == CloseStep(Runner) /\ UNCHANGED ingestVars

IngestNext ==
    \/ IngestRunBegin \/ IngestRunFailed \/ IngestRunFetched
    \/ IngestRunEnd \/ IngestRunClose

IngestSpec == IngestInit /\ [][IngestNext]_vars

(***************************************************************************)
(* Specification IngestKillSpec: the runs of IngestSpec, of which any may  *)
(* be killed at any point of its loop or of close(); the next run begins   *)
(* after the kill.  Time passes, so that the lock file a killed run left   *)
(* goes stale.                                                             *)
(***************************************************************************)
IngestKillBegin ==
    \E page_ids \in Batches, dry_run \in BOOLEAN :
        /\ sess[Runner] < MaxFetchRuns
        /\ IngestBegin(Runner, page_ids, dry_run)
        /\ UNCHANGED notIngest

IngestKillFailed ==
    \E outcome \in {"perm", "transient"} :
        IngestFailed(Runner, outcome) /\ UNCHANGED notIngest

IngestKillFetched == IngestFetched(Runner) /\ UNCHANGED notIngest

IngestKillEnd == IngestEnd(Runner) /\ UNCHANGED notIngest

IngestKillClose == CloseStep(Runner) /\ UNCHANGED <<ingestVars>>

IngestKillKilled == IngestKilled(Runner) /\ UNCHANGED notIngest

IngestKillElapse == LockElapse /\ UNCHANGED <<ingestVars>>

IngestKillNext ==
    \/ IngestKillBegin \/ IngestKillFailed \/ IngestKillFetched \/ IngestKillEnd
    \/ IngestKillClose \/ IngestKillKilled \/ IngestKillElapse

IngestKillSpec == IngestInit /\ [][IngestKillNext]_vars

\* no ingest run is going on: the last one has closed the store or was killed
NoIngestRunning == ~ing.running /\ spc[Runner] \in {"none", "done", "crashed"}

\* C38: whenever no ingest process is running, also after a run was killed
\* at any point, every (page_id, hash) with a SUCCESS line in the journal
\* has a page record with that page_id in the promoted store file.
C38_JournalAgreesWithStore ==
    NoIngestRunning =>
        \A n \in DOMAIN journal :
            journal[n].status = "SUCCESS"
                => /\ fs[OriginalPath].exists
                   /\ fs[OriginalPath].pages[journal[n].page_id] # NoRow

(***************************************************************************)
(* Specification ClientSpec: one client issues _request calls, one after   *)
(* the other, with any retries setting and any outcome of each attempt,    *)
(* while time passes.                                                      *)
(***************************************************************************)
ClientInit ==
    /\ now = 0
    /\ ObjVarsInit
    /\ MutexVarsInit
    /\ HistVarsInit
    /\ StoreVarsInit
    /\ IngestVarsInit
    /\ ExtraVarsInit

notClient == <<now, objVars, mutexVars, storeVars, ingestVars, histVars, chainVars, pureVars, shadow>>

ClientRequestBegin ==
    \E retries \in 0..MaxRetries : RequestBegin(retries) /\ UNCHANGED notClient

ClientConsume == Consume /\ UNCHANGED notClient

ClientConsumeSleep ==
    \E d \in 1..TokenParts : ConsumeSleep(d) /\ UNCHANGED notClient

ClientAttempt ==
    \E outcome \in AttemptOutcomes : Attempt(outcome) /\ UNCHANGED notClient

ClientPass == Pass(1) /\ UNCHANGED <<req, fetch, notClient>>

ClientMark == Mark /\ UNCHANGED notClient

ClientNext ==
    \/ ClientRequestBegin \/ ClientConsume \/ ClientConsumeSleep
    \/ ClientAttempt \/ ClientPass \/ ClientMark

ClientSpec == ClientInit /\ [][ClientNext]_vars

(***************************************************************************)
(* Specification ChainSpec: a ChainRecord is built from any entity lists   *)
(* and detect_states is called on it, with the same now, while the wall    *)
(* clock moves on.                                                         *)
(***************************************************************************)
ChainInit ==
    /\ now = 0
    /\ ObjVarsInit
    /\ MutexVarsInit
    /\ HistVarsInit
    /\ StoreVarsInit
    /\ IngestVarsInit
    /\ ExtraVarsInit

notChain == <<now, objVars, mutexVars, storeVars, ingestVars, histVars, clientVars, pureVars, shadow>>

ChainRunBuild == ChainBuild /\ UNCHANGED notChain

ChainRunDetect == ChainDetect /\ UNCHANGED notChain

ChainRunClock == ChainClock /\ UNCHANGED notChain

ChainNext == ChainRunBuild \/ ChainRunDetect \/ ChainRunClock

ChainSpec == ChainInit /\ [][ChainNext]_vars

(***************************************************************************)
(* Specification FetchSpec: ingest_pages runs whose fetch_page_state is    *)
(* followed request by request, for listings of any length and any outcome *)
(* of each request.                                                        *)
(***************************************************************************)
notFetch == <<now, objVars, mutexVars, histVars, bucket, req, win, chainVars, pureVars, shadow>>

FetchRunBegin ==
    \E page_ids \in Batches, dry_run \in BOOLEAN :
        /\ sess[Runner] < MaxFetchRuns
        /\ IngestBegin(Runner, page_ids, dry_run)
        /\ UNCHANGED notIngest

FetchRunFetch ==
    \E n \in 1..MaxListing :
        FetchBegin(n) /\ UNCHANGED notClient

FetchRunGetPage ==
    \E outcome \in FetchOutcomes :
        GetPage(outcome) /\ UNCHANGED notClient

FetchRunGetBlockChildren ==
    \E outcome \in FetchOutcomes :
        GetBlockChildren(outcome) /\ UNCHANGED notClient

FetchRunStored == FetchStored(Runner) /\ UNCHANGED notFetch

FetchRunFailed == FetchFailed(Runner) /\ UNCHANGED notFetch

FetchRunEnd == fetch.pc = "idle" /\ IngestEnd(Runner) /\ UNCHANGED notIngest

FetchRunClose == CloseStep(Runner) /\ UNCHANGED ingestVars

FetchNext ==
    \/ FetchRunBegin \/ FetchRunFetch \/ FetchRunGetPage
    \/ FetchRunGetBlockChildren \/ FetchRunStored \/ FetchRunFailed
    \/ FetchRunEnd \/ FetchRunClose

FetchSpec == IngestInit /\ [][FetchNext]_vars

(***************************************************************************)
(* Claims about RfcDb (StoreSpec, LockSpec, LockFairSpec)                  *)
(***************************************************************************)
\* the step is the promote of process q: its move of the working copy
IsPromote(q) ==
    /\ spc[q] = "move" /\ spc'[q] = "release"
    /\ fs'[OriginalPath] = fs[TmpPath(q)]

C4_Step ==
    /\ fs'[OriginalPath] # fs[OriginalPath] => \E q \in Procs : IsPromote(q)
    /\ \A p \in Procs :
          (spc[p] # "open" /\ spc'[p] = "open")
              => fs'[TmpPath(p)] = Migrate(fs[OriginalPath])

\* C4: a session that opens the store, calls upsert_page / record_issue any
\* number of times and crashes before close() leaves the file at the original
\* path as it was: the file changes only by the promote of a session that
\* reached close(), and a later open starts from exactly that file.
C4_CrashBeforeCloseLeavesOriginal == [][C4_Step]_vars

\* a crashed session whose abandoned working copy holds its writes, no file
\* at the original path, and a session of another process that sees no row
C4_Witness ==
    /\ spc["p1"] = "crashed"
    /\ \E i \in PageIds : fs[TmpPath("p1")].pages[i] # NoRow
    /\ \E n \in RecordedIssues : fs[TmpPath("p1")].issues[n] # NoRow
    /\ ~fs[OriginalPath].exists
    /\ spc["p2"] = "open"
    /\ \A i \in PageIds : fs[TmpPath("p2")].pages[i] = NoRow
    /\ \A n \in RecordedIssues : fs[TmpPath("p2")].issues[n] = NoRow

C14_Step ==
    \A p \in Procs :
        /\ (spc[p] = "open" /\ spc'[p] \notin {"open", "crashed"})
               => spc'[p] = "lk_exists"
        /\ (spc[p] # "done" /\ spc'[p] = "done") => spc[p] = "release"
        /\ (spc[p] = "move" /\ spc'[p] = "release")
               => \/ fs'[OriginalPath] = fs[TmpPath(p)]
                  \/ exc'[p] = "move" /\ fs'[OriginalPath] = fs[OriginalPath]
        /\ (spc[p] = "release" /\ spc'[p] # "release")
               => spc'[p] = "done" /\ ~lockFile'.exists
        /\ spc'[p] = "done" => ~(lockFile'.exists /\ lockFile'.pid = p)

\* C14: however the open_db scope is left, by normal completion or by an
\* exception raised in its body, close() runs: the session goes through
\* acquire_lock to the move, the move puts the working copy at the original
\* path unless the move itself raises, and release_lock then removes the lock
\* file in both cases, so no lock file of the process is left once it is done.
C14_ScopeExitClosesAndReleases == [][C14_Step]_vars

\* p1 left the scope by an exception and its row is in the promoted file; the
\* move of p2 raised; both are done and no lock file is left
C14_Witness ==
    /\ spc["p1"] = "done" /\ exc["p1"] = "scope"
    /\ \E i \in PageIds : fs[OriginalPath].pages[i] # NoRow
    /\ spc["p2"] = "done" /\ exc["p2"] = "move"
    /\ ~lockFile.exists

\* page i has a row in the database db
HasPage(db, i) == db.pages[i] # NoRow

\* a step of an open session changes at most one page row, to the fields of
\* one upsert, and deletes none
C15_UpsertStep ==
    \A p \in Procs :
        (spc[p] = "open" /\ spc'[p] = "open")
            => \/ fs'[TmpPath(p)].pages = fs[TmpPath(p)].pages
               \/ \E i \in PageIds, h \in Hashes :
                      fs'[TmpPath(p)].pages = [fs[TmpPath(p)].pages EXCEPT ![i] = h]

C15_StepOriginal ==
    /\ \A i \in PageIds :
          HasPage(fs[OriginalPath], i) => HasPage(fs'[OriginalPath], i)
    /\ C15_UpsertStep

\* C15 as stated: for any sequence or interleaving of sessions, a page_id
\* present in the promoted store file is present in every later promoted
\* file, one row per page_id with the fields of the latest upsert.
C15_PagesNeverDisappear == [][C15_StepOriginal]_vars

C15_Step ==
    /\ ~overlap' =>
          \A i \in PageIds :
              HasPage(fs[OriginalPath], i) => HasPage(fs'[OriginalPath], i)
    /\ C15_UpsertStep

\* C15 amended: for sessions that do not overlap (each is opened after the
\* one before it was closed or abandoned), a page_id present in the promoted
\* store file is present in every later promoted file, one row per page_id
\* with the fields of the latest upsert.
C15_PagesKeptBySerialSessions == [][C15_Step]_vars

\* two sessions in sequence have both promoted, and every page has a row with
\* the hash of an upsert
C15_Witness ==
    /\ ~overlap
    /\ \A p \in Procs : spc[p] = "done" /\ exc[p] = "none"
    /\ \A i \in PageIds : fs[OriginalPath].pages[i] = NumHashes

C17_Step ==
    \A p \in Procs :
        (spc[p] = "open" /\ spc'[p] = "open" /\ exc'[p] = "call")
            => fs'[TmpPath(p)] = fs[TmpPath(p)]

\* C17: an upsert_page or record_issue call that raises leaves the working
\* copy with exactly the rows it held before the call, and the error reaches
\* the caller.
C17_FailedMutationRolledBack == [][C17_Step]_vars

\* a call of p1 has raised on a working copy that holds a page row of an
\* earlier call and no issue row
C17_Witness ==
    /\ spc["p1"] = "open" /\ exc["p1"] = "call"
    /\ \E i \in PageIds : fs[TmpPath("p1")].pages[i] # NoRow
    /\ \A n \in RecordedIssues : fs[TmpPath("p1")].issues[n] = NoRow

\* C5: at most one process at a time is between the return of acquire_lock
\* and its release_lock.
C5_OnePromoterAtATime == Cardinality(Promoting) <= 1

\* the lock file was written by p, p is alive and has not released it, and
\* its timestamp is not older than the threshold
FreshLockOf(p) ==
    /\ lockFile.exists /\ lockFile.pid = p
    /\ spc[p] \in {"move", "release"}
    /\ ~Stale(lockFile.age)

\* C36: a lock file written by a live holder, with a timestamp not older
\* than the staleness threshold, is never removed or overwritten by a process
\* other than that holder.
C36_Step ==
    \A p \in Procs :
        FreshLockOf(p) =>
            \/ lockFile'.exists /\ lockFile'.pid = p
            \/ spc[p] = "release" /\ spc'[p] = "done"

C36_FreshLockRespected == [][C36_Step]_vars

C8_Step ==
    \A p \in Procs :
        /\ (/\ spc[p] = "lk_read" /\ lockFile.exists
            /\ lockFile.age > LOCK_STALE_SECONDS
            /\ spc'[p] \notin {"lk_read", "crashed"})
               => spc'[p] = "lk_unlink"
        /\ (spc[p] = "lk_unlink" /\ spc'[p] \notin {"lk_unlink", "crashed"})
               => (spc'[p] = "lk_write" /\ ~lockFile'.exists)
        /\ (spc[p] = "lk_write" /\ spc'[p] \notin {"lk_write", "crashed"})
               => (/\ spc'[p] = "move"
                   /\ lockFile' = [exists |-> TRUE, pid |-> p, age |-> 0])

SeenSuccess(page_id, hash) ==
    \E n \in 1..ing.mark : journal[n] = JournalLine(page_id, hash, "SUCCESS")

C6_Step ==
    (/\ ing.running /\ ing.batch # <<>> /\ ~ing.dry_run
     /\ SeenSuccess(Head(ing.batch), content[Head(ing.batch)])
     /\ ing'.counts.total = ing.counts.total + 1
     /\ ing'.counts.total = ing'.counts.new + ing'.counts.unchanged)
        => /\ ing'.counts.unchanged = ing.counts.unchanged + 1
           /\ upserts' = upserts
           /\ journal' = Append(journal, JournalLine(Head(ing.batch),
                                    content[Head(ing.batch)], "UNCHANGED"))

\* C6: in consecutive non-dry-run runs over a page that is not edited, a run
\* that finds the SUCCESS entry of the page and hash in the journal counts
\* the page as unchanged, does not upsert it and appends no second SUCCESS.
C6_LaterRunsUnchanged == [][C6_Step]_vars

\* one round of the loop of a dry run
C18_Step ==
    (/\ ing.running /\ ing.dry_run /\ ing.batch # <<>>
     /\ ing'.counts.total = ing.counts.total + 1)
        => /\ journal' = journal
           /\ fs'[TmpPath(Runner)].pages = fs[TmpPath(Runner)].pages
           /\ fs'[OriginalPath] = fs[OriginalPath]

\* C18: a dry run of ingest_pages appends no line to the journal and leaves
\* the page records of the store as they are, in every round of its loop,
\* whether the fetch returns a new page, an unchanged page, or fails
\* permanently or transiently.
C18_DryRunAppendsNothing == [][C18_Step]_vars

\* the status journaled for a fetch failure
FailedStatus(outcome) ==
    IF outcome = "perm" THEN "FAILED_PERM" ELSE "FAILED_TRANSIENT"

\* one round of the loop: the call goes on with the ids after this one, in
\* their order, and a failed fetch has appended its one line
C19_Round ==
    (/\ ing.running /\ ing.batch # <<>>
     /\ ing'.counts.total = ing.counts.total + 1)
        => /\ ing'.running
           /\ ing'.batch = Tail(ing.batch)
           /\ spc'[Runner] = "open" /\ exc'[Runner] = "none"
           /\ ing'.last \in {"perm", "transient"}
                => /\ journal' = Append(journal,
                         JournalLine(Head(ing.batch), None, FailedStatus(ing'.last)))
                   /\ ing'.counts.new = ing.counts.new
                   /\ ing'.counts.unchanged = ing.counts.unchanged

\* the loop is left only when every id of the batch has had its round
C19_End == (ing.running /\ ~ing'.running) => ing.batch = <<>>

\* C19: a fetch that fails permanently or transiently does not abort the
\* batch: the round appends exactly one FAILED_PERM or FAILED_TRANSIENT line
\* for its id, the call stays in its loop with the later ids in input order,
\* and the loop ends only after the last id.
C19_FailureNeverAbortsBatch == [][C19_Round /\ C19_End]_vars

\* a batch of two different ids whose first fetch failed transiently and
\* whose second was then stored as new
C19_Witness ==
    /\ ing.running /\ ing.batch = <<>> /\ ing.counts.total = 2
    /\ ing.counts.new = 1 /\ ing.last = "ok"
    /\ Len(journal) = ing.mark + 2
    /\ journal[ing.mark + 1].status = "FAILED_TRANSIENT"
    /\ journal[ing.mark + 2].status = "SUCCESS"
    /\ journal[ing.mark + 1].page_id # journal[ing.mark + 2].page_id

\* the running call has already stored the page with this hash: it appended
\* the SUCCESS line after it loaded its index
StoredInThisCall(page_id, hash) ==
    \E n \in (ing.mark + 1)..Len(journal) :
        journal[n] = JournalLine(page_id, hash, "SUCCESS")

C20_Step ==
    (/\ ing.running /\ ing.batch # <<>>
     /\ StoredInThisCall(Head(ing.batch), content[Head(ing.batch)])
     /\ ing'.counts.total = ing.counts.total + 1
     /\ ing'.last = "ok")
        => /\ ing'.counts.unchanged = ing.counts.unchanged + 1
           /\ ing'.counts.new = ing.counts.new
           /\ upserts' = upserts
           /\ \/ journal' = journal
              \/ journal'[Len(journal')].status # "SUCCESS"

\* C20: when a page id occurs a second time in the batch of one call and the
\* fetch yields the hash the call has already stored, the round counts the
\* page as unchanged, not new, upserts nothing and appends no SUCCESS line.
C20_SecondOccurrenceUnchanged == [][C20_Step]_vars

\* the item counts a summary reports, added up: new, unchanged, and failed
\* where the summary has such a count
ReportedItems(m) ==
    m.new + m.unchanged + (IF "failed" \in DOMAIN m THEN m.failed ELSE 0)

C30_Step ==
    (ing.running /\ ~ing'.running)
        => /\ ing.batch = <<>>
           /\ ReportedItems(summary') = ing.counts.total

\* C30: the summary emitted at the end of an ingest run reports the run's
\* counts of new, unchanged and failed items, and they add up to the number
\* of ids of the batch, each of which has had its round.
C30_SummaryCountsAddUp == [][C30_Step]_vars

(***************************************************************************)
(* Claims about NotionReliableClient (ClientSpec)                          *)
(***************************************************************************)
\* the attempt of this step failed with HTTP 429/5xx, URLError or TimeoutError
TransientFailure ==
    /\ req.pc = "send" /\ req'.tries = req.tries + 1
    /\ req'.last \in {"transient_status", "network"}

\* the attempts a call may issue: retries, and one when retries is below one
AttemptLimit(retries) == IF retries < 1 THEN 1 ELSE retries

\* C21 as stated: a _request call issues at most N = retries attempts.
C21_AtMostRetriesAttempts == req.tries <= req.retries

C21_Step ==
    /\ req'.tries <= AttemptLimit(req'.retries)
    /\ TransientFailure
         => IF req'.tries < AttemptLimit(req.retries)
            THEN req'.pc = "consume"
            ELSE req'.pc = "raised_transient"
    /\ (req.pc = "send" /\ req'.tries = req.tries + 1 /\ req'.last = "ok")
         => req'.pc = "returned"
    /\ req.pc = "returned"
         => \/ req' = req
            \/ req'.pc = "consume" /\ req'.tries = 0

\* C21: a _request call whose attempts keep failing transiently issues at
\* most max(1, retries) attempts, retries after each but the last, and raises
\* TransientNotionError at the last; an attempt that succeeds returns its
\* response, and the call issues no attempt after it.
C21_RetryBounded == [][C21_Step]_vars

\* a call with retries above one has used up its attempts on transient
\* failures and raised
C21_Witness ==
    /\ req.pc = "raised_transient" /\ req.retries > 1
    /\ req.tries = req.retries
    /\ req.last \in {"transient_status", "network"}

C22_Step ==
    /\ (req.pc = "send" /\ req'.tries = req.tries + 1
        /\ req'.last = "permanent_status")
         => /\ req'.pc = "raised_permanent"
            /\ req'.attempt = req.attempt
    /\ req.pc = "raised_permanent"
         => \/ req' = req
            \/ req'.pc = "consume" /\ req'.tries = 0

\* C22: an attempt of _request that returns HTTP 403 or 404 raises
\* PermanentNotionError at once: the call issues no attempt after it,
\* however many retries remain and whatever failures came before.
C22_PermanentNeverRetried == [][C22_Step]_vars

\* HTTP 403/404 after a retried transient failure, with attempts to spare
C22_Witness ==
    /\ req.pc = "raised_permanent"
    /\ req.attempt >= 1
    /\ req.tries < req.retries

C23_Step ==
    (req.pc = "send" /\ req'.tries = req.tries + 1
     /\ req'.last = "other_status")
        => IF req'.tries < AttemptLimit(req.retries)
           THEN req'.pc = "consume"
           ELSE req'.pc = "raised_transient"

\* C23: an attempt of _request that returns an HTTP error status other than
\* 429/5xx and 403/404 is handled as a transient failure: it is retried
\* while attempts remain, and TransientNotionError is raised only at the
\* last attempt.
C23_OtherStatusRetried == [][C23_Step]_vars

\* C24: every attempt of _request, first try or retry, has taken one token
\* from the bucket before it is sent; the token count stays within
\* [0, BURST]; and from any instant on, the attempts issued in t seconds
\* number at most BURST + RATE_PER_SEC * t.
C24_RateBound ==
    /\ req.paid = req.tries + (IF req.pc = "send" THEN 1 ELSE 0)
    /\ bucket.tokens \in 0..TokenCap
    /\ Replenished \in 0..TokenCap
    /\ win.open => win.slack >= 0

\* the bound is met: the attempts counted since the instant have used up
\* BURST and all the time passed, and the call waits for the next token
C24_Witness ==
    /\ win.open /\ win.slack = 0
    /\ req.pc = "sleep"
    /\ bucket.tokens < TokenParts

(***************************************************************************)
(* Claims about fetch_page_state (FetchSpec)                               *)
(***************************************************************************)
C25_Step ==
    LET line == journal'[Len(journal')]
    IN  /\ fetch'.pc = "returned" => fetch'.got = Listing(fetch'.pages)
        /\ Len(journal') = Len(journal) + 1
             => /\ line.status \in {"SUCCESS", "UNCHANGED"}
                     => /\ fetch.pc = "returned"
                        /\ fetch.got = Listing(fetch.pages)
                        /\ line.hash = content[line.page_id]
                /\ fetch.pc = "raised"
                     => /\ line.status \in {"FAILED_PERM", "FAILED_TRANSIENT"}
                        /\ line.hash = None
        /\ fetch.pc = "raised" => upserts' = upserts

\* C25: fetch_page_state returns, and a SUCCESS or UNCHANGED line is
\* journaled, only with the blocks of every page of the listing, up to the
\* page whose has_more is false, and the hash is the hash of those blocks;
\* when a request of the listing fails, the round journals a FAILED_* line
\* without hash and stores nothing.
C25_NoPartialPageHashed == [][C25_Step]_vars

\* a request failed after the first page of a listing had been read
C25_Witness ==
    /\ fetch.pc = "raised"
    /\ fetch.got # <<>>
    /\ Len(fetch.got) < fetch.pages

(***************************************************************************)
(* Claims about ChainRecord.detect_states (ChainSpec)                      *)
(***************************************************************************)
\* the rules of the four states that do not look at the clock, on the
\* entities of the record
OpenStates == {"open", "OPEN"}

SomeOpenPr == \E n \in DOMAIN snap.pull_requests :
                  snap.pull_requests[n].state \in OpenStates

SomeOpenIssue == \E n \in DOMAIN snap.issues : snap.issues[n].state \in OpenStates

BranchOnlyRule ==
    /\ snap.branches > 0 /\ ~SomeOpenPr /\ ~SomeOpenIssue
    /\ \E n \in DOMAIN snap.issues : snap.issues[n].state = "closed"

IssueOnlyAssignedRule ==
    /\ \E n \in DOMAIN snap.issues :
          snap.issues[n].state \in OpenStates /\ snap.issues[n].assignees
    /\ ~SomeOpenPr /\ snap.branches = 0

PrClosedConflictRule ==
    \E n \in DOMAIN snap.pull_requests :
        snap.pull_requests[n].state = "closed" /\ ~snap.pull_requests[n].merged

DuplicatePrsRule ==
    Cardinality({n \in DOMAIN snap.pull_requests :
                    snap.pull_requests[n].state \in OpenStates}) > 1

\* C26: detect_states returns BRANCH_ONLY, ISSUE_ONLY_ASSIGNED,
\* PR_CLOSED_CONFLICT and DUPLICATE_PRS exactly when the rule of the state
\* holds on the entity lists of the record, and no state twice.
C26_StatesMatchRules ==
    \A c \in DOMAIN det :
        /\ In("BRANCH_ONLY", det[c]) <=> BranchOnlyRule
        /\ In("ISSUE_ONLY_ASSIGNED", det[c]) <=> IssueOnlyAssignedRule
        /\ In("PR_CLOSED_CONFLICT", det[c]) <=> PrClosedConflictRule
        /\ In("DUPLICATE_PRS", det[c]) <=> DuplicatePrsRule
        /\ Cardinality(Range(det[c])) = Len(det[c])

\* a record with a branch, a closed issue and a closed, unmerged pull
\* request has been classified with two states
C26_Witness ==
    /\ Len(det) >= 1
    /\ In("BRANCH_ONLY", det[1]) /\ In("PR_CLOSED_CONFLICT", det[1])
    /\ Len(det[1]) = 2

\* some run of the record is in_progress or queued and older, by its
\* created_at, than the threshold
SomeRunOverdue ==
    \E n \in DOMAIN snap.runs :
        /\ snap.runs[n].status \in {"in_progress", "queued"}
        /\ snap.runs[n].created_at # Unparseable
        /\ snap.now - snap.runs[n].created_at > CI_STUCK_THRESHOLD_MINUTES * 60

\* every in_progress or queued run of the record has a created_at that parses
ActiveRunsDated ==
    \A n \in DOMAIN snap.runs :
        snap.runs[n].status \in {"in_progress", "queued"}
            => snap.runs[n].created_at # Unparseable

C28_SameSnapshotSameStates ==
    \A c, d \in DOMAIN det : det[c] = det[d]

(***************************************************************************)
(* Specification ParseSpec: the body of the tracking issue is written by   *)
(* hand or by another tool, and SeriesState.from_body reads it.            *)
(***************************************************************************)
\* a JSON value that int() rejects: a string that is no number, or null
NonNumeric == -1

\* the bodies from_body may be given: no fenced block, a block that is not
\* valid JSON, or a block of fields, well formed or not
TrackingBodies ==
    {[kind |-> "text"], [kind |-> "bad_json"]}
    \cup [kind : {"json"}, active_issue : {None} \cup Issues,
          queue : UNION {[1..n -> Issues \cup {NonNumeric}] : n \in 0..MaxQueue},
          updated_at : {0}, version : {1, NonNumeric}]

\* int(x) raises ValueError or TypeError
IntRaises(x) == x = NonNumeric

\* SeriesState.from_body at time t with its conversions: the state it
\* returns, or the exception that leaves it
FromBodyCall(b, t) ==
    IF b.kind # "json"
    THEN [raised |-> "none", state |-> FromBody(b, t)]
    ELSE IF (\E n \in DOMAIN b.queue : IntRaises(b.queue[n])) \/ IntRaises(b.version)
    THEN [raised |-> "ValueError", state |-> DefaultState(t)]
    ELSE [raised |-> "none", state |-> FromBody(b, t)]

ParseInit ==
    /\ now = 0
    /\ ObjVarsInit
    /\ MutexVarsInit
    /\ HistVarsInit
    /\ StoreVarsInit
    /\ IngestVarsInit
    /\ ExtraVarsInit

notParse == <<now, issueOpen, pc, loc, out, exitCode, storeVars, ingestVars, histVars, extraVars>>

\* the body of the tracking issue is written from outside
ParseEdit ==
    /\ docs = <<>>
    /\ \E b \in TrackingBodies :
          docs' = <<[body |-> b, updatedAt |-> now]>>
    /\ UNCHANGED <<objVars, notParse>>

\* SeriesState.from_body(series, body) is called on the body
ParseFromBody ==
    /\ docs # <<>>
    /\ LET r == FromBodyCall(docs[1].body, now)
       IN  /\ state' = IF r.raised = "none" THEN r.state ELSE state
           /\ call' = [op |-> "from_body", candidate |-> None,
                       candidate_open |-> TRUE, aio |-> "None",
                       result |-> IF r.raised = "none" THEN "returned"
                                  ELSE r.raised]
    /\ UNCHANGED <<docs, notParse>>

ParseNext == ParseEdit \/ ParseFromBody

ParseSpec == ParseInit /\ [][ParseNext]_vars

(***************************************************************************)
(* Claims about SeriesState.from_body (ParseSpec)                          *)
(***************************************************************************)
\* the body read by the last from_body call has no block, a block that is
\* not JSON, or a block with a malformed field
Malformed(b) ==
    \/ b.kind # "json"
    \/ \E n \in DOMAIN b.queue : b.queue[n] = NonNumeric
    \/ b.version = NonNumeric

C29_Step ==
    (call' # call /\ call'.op = "from_body")
        => /\ call'.result = "returned"
           /\ Malformed(docs[1].body)
                => /\ state'.active_issue = None
                   /\ state'.queue = <<>>
                   /\ state'.version = 1

\* C29: from_body never raises; for a body without a fenced JSON block,
\* with a block that is not valid JSON, or with a block whose queue or
\* version is malformed, it returns the default state.
C29_FromBodyNeverRaises == [][C29_Step]_vars

(***************************************************************************)
(* Specification ObjSpec: one SeriesState object, created by default() and *)
(* then driven by arbitrary apply_candidate calls and blocked updates.     *)
(***************************************************************************)
ObjInit ==
    /\ now = 0
    /\ ObjVarsInit
    /\ StoreVarsInit
    /\ IngestVarsInit
    /\ MutexVarsInit
    /\ ExtraVarsInit
    /\ HistVarsInit

\* time passes
ObjTick ==
    /\ now < MaxNow
    /\ now' = now + 1
    /\ UNCHANGED <<objVars, mutexVars, storeVars, ingestVars, histVars, extraVars>>

ObjApplyCandidate ==
    \E c \in Issues, co \in BOOLEAN, aio \in AioValues :
        LET r == ApplyCandidate(state, c, co, aio, now)
        IN /\ state' = r.state
           /\ call' = [op |-> "apply_candidate", candidate |-> c,
                       candidate_open |-> co, aio |-> aio, result |-> r.status]
           /\ UNCHANGED <<now, mutexVars, storeVars, ingestVars, histVars, extraVars>>

ObjBlockedUpdate ==
    \E c \in Issues :
        /\ state' = BlockedUpdate(state, c, now)
        /\ call' = [op |-> "blocked_update", candidate |-> c,
                    candidate_open |-> TRUE, aio |-> "None",
                    result |-> "queued-dependency"]
        /\ UNCHANGED <<now, mutexVars, storeVars, ingestVars, histVars, extraVars>>

ObjNext == ObjTick \/ ObjApplyCandidate \/ ObjBlockedUpdate

ObjSpec == ObjInit /\ [][ObjNext]_vars

(***************************************************************************)
(* Specification LoadedSpec: a SeriesState object as from_body builds it   *)
(* from the JSON block of a tracking body, which is not validated: any     *)
(* owner, any list of issue numbers (the owner and repeated numbers        *)
(* included), then driven like the object of ObjSpec.                      *)
(***************************************************************************)
\* the queues from_body accepts
LoadedQueues == UNION {[1..n -> Issues] : n \in 0..MaxQueue}

\* the states from_body returns
LoadedStates ==
    [active_issue : {None} \cup Issues, queue : LoadedQueues,
     updated_at : {0}, version : {1}]

LoadedInit ==
    /\ now = 0
    /\ state \in LoadedStates
    /\ call = NoCall
    /\ StoreVarsInit
    /\ IngestVarsInit
    /\ MutexVarsInit
    /\ ExtraVarsInit
    /\ HistVarsInit

LoadedSpec == LoadedInit /\ [][ObjNext]_vars

\* number of occurrences of x in the list q
Count(q, x) == Cardinality({i \in 1..Len(q) : q[i] = x})

\* the list q without the entries equal to x or to y, the rest in order
RECURSIVE Others(_, _, _)
Others(q, x, y) ==
    IF q = <<>> THEN <<>>
    ELSE IF Head(q) = x \/ Head(q) = y THEN Others(Tail(q), x, y)
    ELSE <<Head(q)>> \o Others(Tail(q), x, y)

\* the step is an apply_candidate call, and call' describes it
IsApply == call' # call /\ call'.op = "apply_candidate" /\ now' = now

(***************************************************************************)
(* Claims about apply_candidate on a loaded state (LoadedSpec)             *)
(***************************************************************************)
C11_Step ==
    (/\ IsApply /\ call'.candidate_open
     /\ call'.candidate # state.active_issue
     /\ (state.active_issue = None \/ call'.aio = "False"))
        => /\ call'.result = "acquired"
           /\ state'.active_issue = call'.candidate
           /\ state'.queue = Others(state.queue, call'.candidate, state.active_issue)

\* C11: for an open candidate c that is not the owner, when there is no owner
\* or active_issue_open is False, apply_candidate returns 'acquired', makes c
\* the owner, and the queue afterwards is the old queue without c and without
\* the former owner, the other issues in their previous order.
C11_AcquireRemovesCandidateAndOwner == [][C11_Step]_vars

C12_Pre ==
    /\ IsApply /\ call'.candidate_open
    /\ state.active_issue # None
    /\ state.active_issue # call'.candidate
    /\ call'.aio = "True"

C12_StepOriginal ==
    C12_Pre
        => /\ call'.result = "queued"
           /\ state'.active_issue = state.active_issue
           /\ Count(state'.queue, call'.candidate) = 1
           /\ state'.queue = IF In(call'.candidate, state.queue) THEN state.queue
                             ELSE Append(state.queue, call'.candidate)

\* C12 as stated: with a different open owner, apply_candidate returns
\* 'queued', keeps the owner, and afterwards c occurs exactly once in the
\* queue: appended at the tail if absent, queue unchanged if present.
C12_QueuedExactlyOnce == [][C12_StepOriginal]_vars

C12_Step ==
    C12_Pre
        => /\ call'.result = "queued"
           /\ state'.active_issue = state.active_issue
           /\ In(call'.candidate, state'.queue)
           /\ state'.queue = IF In(call'.candidate, state.queue) THEN state.queue
                             ELSE Append(state.queue, call'.candidate)
           /\ Count(state.queue, call'.candidate) <= 1
                  => Count(state'.queue, call'.candidate) = 1

\* C12 amended: with a different open owner, apply_candidate returns 'queued',
\* keeps the owner, and afterwards c is in the queue: appended at the tail if
\* it was absent, the queue unchanged if it was present; c occurs exactly once
\* afterwards when it occurred at most once before.
C12_QueuedAtTailOrUnchanged == [][C12_Step]_vars

\* a candidate queued at the tail behind another issue, an owner in place
C12_Witness ==
    /\ call.op = "apply_candidate" /\ call.result = "queued"
    /\ call.aio = "True"
    /\ state.active_issue # None
    /\ Len(state.queue) >= 2
    /\ state.queue[Len(state.queue)] = call.candidate
    /\ Count(state.queue, call.candidate) = 1

C13_Step ==
    (IsApply /\ call'.candidate_open /\ call'.candidate = state.active_issue)
        => /\ call'.result = "already-active"
           /\ state'.active_issue = call'.candidate
           /\ ~In(call'.candidate, state'.queue)

\* C13: for an open candidate c that already is the owner, apply_candidate
\* returns 'already-active' whatever active_issue_open is, keeps c the owner,
\* and afterwards c is nowhere in the queue, whatever the queue held before.
C13_AlreadyActiveHealsQueue == [][C13_Step]_vars

(***************************************************************************)
(* Claims about the SeriesState object (checked under ObjSpec).            *)
(***************************************************************************)
\* position of x in a duplicate-free list that holds it
IndexOf(q, x) == CHOOSE i \in 1..Len(q) : q[i] = x

\* C2: from SeriesState.default, after any sequence of apply_candidate calls
\* (any arguments, raising calls included) and of dependency-blocked
\* updates, active_issue is never an element of queue.
C2_ActiveNeverQueued ==
    ~In(state.active_issue, state.queue)

\* C2 witness: a candidate was promoted while other issues were waiting.
C2_Witness ==
    /\ call.op = "apply_candidate"
    /\ call.result = "acquired"
    /\ state.active_issue = call.candidate
    /\ Len(state.queue) >= 1

\* C3: the queue never holds an issue twice, a newly queued issue is added
\* only at the tail, and two issues queued before and after a transition
\* keep their relative order.
C3_Step ==
    LET q == state.queue
        r == state'.queue
    IN /\ NoDuplicates(r)
       /\ \A x \in Range(r) \ Range(q) : r[Len(r)] = x
       /\ \A x, y \in Range(q) \cap Range(r) :
              IndexOf(q, x) < IndexOf(q, y) => IndexOf(r, x) < IndexOf(r, y)

C3_QueueFifo == [][C3_Step]_vars

\* C3 witness: two issues wait in the queue, the last one just queued behind
\* the other.
C3_Witness ==
    /\ call.op = "apply_candidate"
    /\ call.result = "queued"
    /\ Len(state.queue) >= 2
    /\ state.queue[Len(state.queue)] = call.candidate

\* C10: apply_candidate with candidate_open = False raises MutexError and
\* leaves active_issue, queue, updated_at and version as they were.
C10_Step ==
    (call'.op = "apply_candidate" /\ ~call'.candidate_open /\ now' = now)
        => /\ call'.result = "MutexError"
           /\ state'.active_issue = state.active_issue
           /\ state'.queue = state.queue
           /\ state'.updated_at = state.updated_at
           /\ state'.version = state.version

C10_ClosedCandidateRaises == [][C10_Step]_vars

\* C10 witness: the call raised on a state that has an owner, a queue and an
\* updated_at older than the clock.
C10_Witness ==
    /\ call.op = "apply_candidate"
    /\ ~call.candidate_open
    /\ call.result = "MutexError"
    /\ state.active_issue # None
    /\ state.queue # <<>>
    /\ state.updated_at < now

(***************************************************************************)
(* Specification NormSpec: a text of at most MaxText characters is typed,  *)
(* normalize_content is applied to it, and then to the result.             *)
(***************************************************************************)
NormInit ==
    /\ now = 0
    /\ ObjVarsInit
    /\ MutexVarsInit
    /\ HistVarsInit
    /\ StoreVarsInit
    /\ IngestVarsInit
    /\ ExtraVarsInit

notNorm == <<now, objVars, mutexVars, storeVars, ingestVars, histVars,
             clientVars, chainVars, pager, shadow>>

NormRunType == \E c \in Chars : NormType(c) /\ UNCHANGED notNorm

NormRunCall == NormCall /\ UNCHANGED notNorm

NormRunAgain == NormAgain /\ UNCHANGED notNorm

NormNext == NormRunType \/ NormRunCall \/ NormRunAgain

NormSpec == NormInit /\ [][NormNext]_vars

\* C31: normalize_content is idempotent: for every text of letters, spaces,
\* CR and LF, normalize_content(normalize_content(x)) equals
\* normalize_content(x).
C31_NormalizeIdempotent == norm.pc = "twice" => norm.twice = norm.once

\* C31 witness: both calls were made on a text with a CR LF pair and a run
\* of blank lines, which the first call changed into a text of two lines.
C31_Witness ==
    /\ norm.pc = "twice"
    /\ \E i \in 1..(Len(norm.raw) - 1) : norm.raw[i] = CR /\ norm.raw[i + 1] = LF
    /\ Len(Split(ReplaceCr(ReplaceCrLf(norm.raw)))) >= 4
    /\ norm.once # norm.raw
    /\ Len(Split(norm.once)) = 2

(***************************************************************************)
(* Specification PagerSpec: get_block_children is called, again and again, *)
(* on a client of any server of Servers; every request succeeds.  The call *)
(* goes on as long as it can (PagerFairSpec).                              *)
(***************************************************************************)
notPager == <<now, objVars, mutexVars, storeVars, ingestVars, histVars,
              clientVars, chainVars, norm, shadow>>

PagerRunServe == \E server \in Servers : PagerServe(server) /\ UNCHANGED notPager

PagerRunBegin == PagerBegin /\ UNCHANGED notPager

PagerRunRequest == PagerRequest /\ UNCHANGED notPager

PagerNext == PagerRunServe \/ PagerRunBegin \/ PagerRunRequest

PagerSpec == NormInit /\ [][PagerNext]_vars

PagerFairSpec == PagerSpec /\ WF_vars(PagerRunRequest)

\* C40: get_block_children terminates for every server whose requests all
\* succeed: a call that has begun returns, also when a response has has_more
\* true and no next_cursor.
C40_GetBlockChildrenTerminates == (pager.pc = "request") ~> (pager.pc = "returned")

====
